---- MODULE Spec2Model ----
(***************************************************************************)
(* DNSherpa: discovery of hosts from Docker labels and Proxmox resources   *)
(* and the synthesis of their DNS records in an etcd key/value store.      *)
(*                                                                         *)
(* Representation of Go strings.                                           *)
(*  - Hostnames, the etcd prefix and etcd keys are sequences of one-       *)
(*    character strings, so strings.Split / strings.Join / fmt.Sprintf     *)
(*    are computed character by character.                                 *)
(*  - Address strings, the DNS target, interface names and tag names are   *)
(*    TLA+ strings taken from the finite universes below; net.ParseIP,     *)
(*    IP.To4, strings.TrimSpace and strings.HasPrefix are given on these   *)
(*    universes.                                                           *)
(*  - A string that the code splits on a separator (a tag value on ",",    *)
(*    an Inet field on "/") is held as the sequence of its parts, which    *)
(*    determines the string; the empty string is <<"">>.                   *)
(***************************************************************************)
EXTENDS Integers, Sequences, FiniteSets, TLC

Nil == "<nil>"
\* handleContainerEvent is working on no event
NoEvent == [Type |-> "none", Action |-> "none", ID |-> "none"]

(***************************************************************************)
(* Bounds of the model                                                     *)
(***************************************************************************)
\* longest hostname / resource name drawn for the pure-function checks
MaxNameLen == 5
\* longest address list drawn for the pure-function checks
MaxIPs == 4
\* most tag entries on a resource drawn for the resolver checks
MaxTags == 2
\* most containers ContainerList answers in the sync checks
MaxContainers == 2
\* longest label value drawn exhaustively for the extraction checks
MaxValueLen == 5
\* longest Docker hostname drawn for the key namespace checks
MaxHostLen == 4
\* last position of a host whose Put is made to fail
MaxFailedAt == 4
\* longest value of PROXMOX_POLL_INTERVAL drawn for the configuration checks
MaxDurationLen == 3

(***************************************************************************)
(* State                                                                   *)
(***************************************************************************)
VARIABLES
    config,     \* the Config every client holds
    containers, \* Docker: the containers ContainerList and ContainerInspect see
    dStream,    \* Docker: the events the stream of client.Events holds, not yet received
    dEvent,     \* Docker: the event whose ContainerInspect is pending, or NoEvent
    cluster,    \* Proxmox: the nodes with their VMs and containers
    store,      \* etcd: key -> value
    origin,     \* per key of the store: who issued its last Put (history)
    dpc,        \* DockerClient.StartEventMonitoring: where it is
    dQueue,     \* the hosts the current loop has still to pass to CreateDNSRecord
    ppc,        \* ProxmoxClient.StartMonitoring: where it is
    pNodes,     \* syncAllResources: the nodes still to visit
    pStage,     \* syncAllResources: "node", "vms" or "cts" of the first of pNodes
    pList,      \* the VMs or containers of that node still to process
    pRes,       \* the resource processVM / processContainer was last called on
    pPuts,      \* the Puts the running CreateDNSRecords call has still to issue
    pInitial,   \* what the initial syncAllResources returned (history)
    proc,       \* the process: "up", "fatal" (log.Fatal), "signalled" (main returned)
                \* or "panic" (time.NewTicker on an interval that is not positive)
    spc,        \* DNSAutomator.Start: where it is
    sret,       \* the error Start returned, Nil before
    dret,       \* the error StartEventMonitoring returned, Nil before
    pret,       \* the error StartMonitoring returned, Nil before
    errChan,    \* the error the Docker event stream has delivered, Nil when none
    healed,     \* the platforms and the store have stopped failing for good
    call,       \* a single call of one function: its receiver and arguments
    ret         \* what that call returned (and the store it left)

runVars == <<config, containers, dStream, dEvent, cluster, store, origin, dpc, dQueue,
             ppc, pNodes, pStage, pList, pRes, pPuts, pInitial,
             proc, spc, sret, dret, pret, errChan, healed>>
fnVars == <<call, ret>>
vars == <<config, containers, dStream, dEvent, cluster, store, origin, dpc, dQueue,
          ppc, pNodes, pStage, pList, pRes, pPuts, pInitial,
          proc, spc, sret, dret, pret, errChan, healed, call, ret>>

(***************************************************************************)
(* strings                                                                 *)
(***************************************************************************)
IndexOf(s, c) ==
    IF \E i \in 1..Len(s) : s[i] = c
    THEN CHOOSE i \in 1..Len(s) : s[i] = c /\ \A j \in 1..(i-1) : s[j] # c
    ELSE 0

\* strings.Contains(s, c) for a one-character c
Contains(s, c) == IndexOf(s, c) # 0

RECURSIVE Split(_, _)
\* strings.Split(s, sep) for a one-character sep: n separators give n+1 parts
Split(s, sep) ==
    LET i == IndexOf(s, sep)
    IN  IF i = 0 THEN <<s>>
        ELSE <<SubSeq(s, 1, i-1)>> \o Split(SubSeq(s, i+1, Len(s)), sep)

RECURSIVE Join(_, _)
\* strings.Join(parts, sep)
Join(parts, sep) ==
    IF parts = <<>> THEN <<>>
    ELSE IF Len(parts) = 1 THEN parts[1]
    ELSE parts[1] \o <<sep>> \o Join(Tail(parts), sep)

DigitChars == <<"0", "1", "2", "3", "4", "5", "6", "7", "8", "9">>

RECURSIVE Itoa(_)
\* the %d verb of fmt.Sprintf for n >= 0
Itoa(n) ==
    IF n < 10 THEN <<DigitChars[n+1]>>
    ELSE Itoa(n \div 10) \o <<DigitChars[(n % 10) + 1]>>

\* strings.TrimSpace on the universe of the model: the only strings with
\* surrounding white space are those listed here
TrimSpace(s) ==
    CASE s = " 10.0.0.1"     -> "10.0.0.1"
      [] s = " dnsherpa-ip"  -> "dnsherpa-ip"
      [] OTHER               -> s

(***************************************************************************)
(* net.ParseIP / IP.To4                                                    *)
(***************************************************************************)
V4Literals == {"10.0.0.1", "10.0.0.2", "192.0.2.5", "127.0.0.1", "127.0.0.2"}
V6Literals == {"2001:db8::1", "2001:db8::2", "2001:db8::5", "::1", "fe80::1"}
\* IPv4-mapped IPv6 text: ParseIP accepts it and To4 is non-nil
MappedLiterals == {"::ffff:10.0.0.3"}
NonIPStrings == {"", "bogus", " 10.0.0.1", "traefik.lab"}

\* net.ParseIP(s): the parsed address, or Nil
ParseIP(s) ==
    IF s \in V4Literals \cup V6Literals \cup MappedLiterals THEN s ELSE Nil

\* IP.To4(): non-nil exactly for the addresses that have a 4-byte form
To4(ip) ==
    IF ip \in V4Literals \cup MappedLiterals THEN ip ELSE Nil

\* strings.HasPrefix(s, "fe80::") on the address universe
HasPrefixFe80(s) == s \in {"fe80::1"}

(***************************************************************************)
(* DNSRecord and its JSON encoding                                         *)
(***************************************************************************)
RecordTTL == 300

DNSRecord(host, ttl) == [Host |-> host, TTL |-> ttl]

\* json.Marshal of a DNSRecord: host carries omitempty, ttl does not
Marshal(record) ==
    IF record.Host = "" THEN [ttl |-> record.TTL]
    ELSE [host |-> record.Host, ttl |-> record.TTL]

(***************************************************************************)
(* the store: clientv3 Put                                                 *)
(***************************************************************************)
Put(st, key, value) ==
    [k \in (DOMAIN st) \cup {key} |-> IF k = key THEN value ELSE st[k]]

EmptyStore == [k \in {} |-> Nil]

RECURSIVE ApplyPuts(_, _, _)
\* the first n Puts of a list of [key, value], in order
ApplyPuts(st, puts, n) ==
    IF n = 0 \/ puts = <<>> THEN st
    ELSE ApplyPuts(Put(st, puts[1].key, puts[1].value), Tail(puts), n - 1)

(***************************************************************************)
(* KeyPathBuilder: the reverse-domain key                                  *)
(***************************************************************************)
RECURSIVE SwapLoop(_, _, _)
\* for i, j := 0, len(parts)-1; i < j; i, j = i+1, j-1 { swap }
SwapLoop(parts, i, j) ==
    IF i < j
    THEN SwapLoop([parts EXCEPT ![i] = parts[j], ![j] = parts[i]], i + 1, j - 1)
    ELSE parts

\* a reversal whose loop stops one element early
ReverseParts_StopEarly(parts) == SwapLoop(parts, 1, Len(parts) - 1)

ReverseParts(parts) == SwapLoop(parts, 1, Len(parts))

\* CreateDNSRecord: key := Sprintf("%s/%s", prefix, Join(reversed parts, "/"))
DNSRecordKey(cfg, hostname) ==
    cfg.EtcdPrefix \o <<"/">> \o Join(ReverseParts(Split(hostname, ".")), "/")

\* CreateDNSRecords: basePath, computed by the same lines
BasePath(cfg, hostname) ==
    cfg.EtcdPrefix \o <<"/">> \o Join(ReverseParts(Split(hostname, ".")), "/")

(***************************************************************************)
(* EtcdClient.CreateDNSRecord (Docker side)                                *)
(***************************************************************************)
\* a CNAME branch that builds its record without the TTL field
TargetRecord_CnameWithoutTTL(cfg) ==
    IF ParseIP(cfg.DNSTarget) # Nil
    THEN DNSRecord(cfg.DNSTarget, cfg.RecordTTL)
    ELSE DNSRecord(cfg.DNSTarget, 0)

\* the record CreateDNSRecord builds: the same in the A, AAAA and CNAME branch
TargetRecord(cfg) ==
    LET target == cfg.DNSTarget
        ip     == ParseIP(target)
    IN  IF ip # Nil
        THEN IF To4(ip) # Nil
             THEN DNSRecord(target, cfg.RecordTTL)    \* logged as "A"
             ELSE DNSRecord(target, cfg.RecordTTL)    \* logged as "AAAA"
        ELSE DNSRecord(target, cfg.RecordTTL)         \* logged as "CNAME"

\* the Put that CreateDNSRecord(hostname) issues
DNSRecordPut(cfg, hostname) ==
    [key |-> DNSRecordKey(cfg, hostname), value |-> Marshal(TargetRecord(cfg))]

\* a writer that never overwrites: a key already present gets a fresh sibling
CreateDNSRecord_NoOverwrite(cfg, st, hostname, putOk) ==
    LET p   == DNSRecordPut(cfg, hostname)
        key == IF p.key \in DOMAIN st
               THEN p.key \o <<"/">> \o Itoa(Cardinality(DOMAIN st))
               ELSE p.key
    IN  IF putOk THEN [store |-> Put(st, key, p.value), err |-> FALSE]
        ELSE [store |-> st, err |-> TRUE]

\* CreateDNSRecord(hostname) on store st; putOk is the outcome of client.Put
CreateDNSRecord(cfg, st, hostname, putOk) ==
    LET p == DNSRecordPut(cfg, hostname)
    IN  IF putOk THEN [store |-> Put(st, p.key, p.value), err |-> FALSE]
        ELSE [store |-> st, err |-> TRUE]

(***************************************************************************)
(* EtcdClient.CreateDNSRecords (Proxmox side)                              *)
(***************************************************************************)
RECURSIVE RecordsLoop(_, _, _, _, _, _)
\* the loop over ips: the Puts it issues when every Put succeeds
RecordsLoop(cfg, basePath, ips, i, ipv4Count, ipv6Count) ==
    IF i > Len(ips) THEN <<>>
    ELSE LET ip    == ips[i]
             netIP == ParseIP(ip)
         IN  IF netIP # Nil
             THEN IF To4(netIP) # Nil
                  THEN <<[key        |-> basePath \o <<"/", "a">> \o Itoa(ipv4Count + 1),
                          value      |-> Marshal(DNSRecord(ip, cfg.RecordTTL)),
                          recordType |-> "A"]>>
                       \o RecordsLoop(cfg, basePath, ips, i + 1, ipv4Count + 1, ipv6Count)
                  ELSE <<[key        |-> basePath \o <<"/", "a", "a", "a", "a">>
                                                  \o Itoa(ipv6Count + 1),
                          value      |-> Marshal(DNSRecord(ip, cfg.RecordTTL)),
                          recordType |-> "AAAA"]>>
                       \o RecordsLoop(cfg, basePath, ips, i + 1, ipv4Count, ipv6Count + 1)
             ELSE RecordsLoop(cfg, basePath, ips, i + 1, ipv4Count, ipv6Count)

RECURSIVE RecordsLoop_OneCounter(_, _, _, _, _)
\* the loop with a single counter shared by the two families
RecordsLoop_OneCounter(cfg, basePath, ips, i, count) ==
    IF i > Len(ips) THEN <<>>
    ELSE LET ip    == ips[i]
             netIP == ParseIP(ip)
         IN  IF netIP # Nil
             THEN <<[key        |-> basePath
                                    \o (IF To4(netIP) # Nil THEN <<"/", "a">>
                                        ELSE <<"/", "a", "a", "a", "a">>)
                                    \o Itoa(count + 1),
                     value      |-> Marshal(DNSRecord(ip, cfg.RecordTTL)),
                     recordType |-> IF To4(netIP) # Nil THEN "A" ELSE "AAAA"]>>
                  \o RecordsLoop_OneCounter(cfg, basePath, ips, i + 1, count + 1)
             ELSE RecordsLoop_OneCounter(cfg, basePath, ips, i + 1, count)

DNSRecordsPuts_OneCounter(cfg, hostname, ips) ==
    RecordsLoop_OneCounter(cfg, BasePath(cfg, hostname), ips, 1, 0)

RECURSIVE RecordsLoop_AtBase(_, _, _, _)
\* a loop that puts every address at the base path itself, without a suffix
RecordsLoop_AtBase(cfg, basePath, ips, i) ==
    IF i > Len(ips) THEN <<>>
    ELSE LET ip    == ips[i]
             netIP == ParseIP(ip)
         IN  IF netIP # Nil
             THEN <<[key        |-> basePath,
                     value      |-> Marshal(DNSRecord(ip, cfg.RecordTTL)),
                     recordType |-> IF To4(netIP) # Nil THEN "A" ELSE "AAAA"]>>
                  \o RecordsLoop_AtBase(cfg, basePath, ips, i + 1)
             ELSE RecordsLoop_AtBase(cfg, basePath, ips, i + 1)

DNSRecordsPuts_AtBase(cfg, hostname, ips) ==
    RecordsLoop_AtBase(cfg, BasePath(cfg, hostname), ips, 1)

\* a CreateDNSRecords that writes a host with a single address at the base
\* path, and suffixes only when there are several
DNSRecordsPuts_SingleAtBase(cfg, hostname, ips) ==
    IF Len(RecordsLoop_AtBase(cfg, BasePath(cfg, hostname), ips, 1)) = 1
    THEN RecordsLoop_AtBase(cfg, BasePath(cfg, hostname), ips, 1)
    ELSE RecordsLoop(cfg, BasePath(cfg, hostname), ips, 1, 0, 0)

\* the Puts of one CreateDNSRecords(hostname, ips) call, in order
DNSRecordsPuts(cfg, hostname, ips) ==
    RecordsLoop(cfg, BasePath(cfg, hostname), ips, 1, 0, 0)

\* a loop that logs the failure of a Put and goes on with the next address
CreateDNSRecords_Continue(cfg, st, hostname, ips, failAt) ==
    LET puts   == DNSRecordsPuts(cfg, hostname, ips)
        failed == failAt \in 1..Len(puts)
        rest   == IF failed
                  THEN SubSeq(puts, 1, failAt - 1) \o SubSeq(puts, failAt + 1, Len(puts))
                  ELSE puts
    IN  [store |-> ApplyPuts(st, rest, Len(rest)),
         err   |-> failed,
         puts  |-> rest]

\* CreateDNSRecords(hostname, ips) on store st; failAt = k > 0 makes the k-th
\* Put fail (the call returns the error at once), failAt = 0 lets all succeed
CreateDNSRecords(cfg, st, hostname, ips, failAt) ==
    LET puts   == DNSRecordsPuts(cfg, hostname, ips)
        failed == failAt \in 1..Len(puts)
        done   == IF failed THEN failAt - 1 ELSE Len(puts)
    IN  [store |-> ApplyPuts(st, puts, done),
         err   |-> failed,
         puts  |-> SubSeq(puts, 1, done)]

(***************************************************************************)
(* ProxmoxClient.applyMultiIPv4Strategy                                    *)
(***************************************************************************)
RECURSIVE FirstLoop(_, _, _)
\* the loop of the non-"all" branch: first IPv4 and all IPv6 addresses
FirstLoop(ips, i, foundIPv4) ==
    IF i > Len(ips) THEN <<>>
    ELSE LET ip    == ips[i]
             netIP == ParseIP(ip)
         IN  IF netIP # Nil
             THEN IF To4(netIP) # Nil
                  THEN IF ~foundIPv4
                       THEN <<ip>> \o FirstLoop(ips, i + 1, TRUE)
                       ELSE FirstLoop(ips, i + 1, foundIPv4)
                  ELSE <<ip>> \o FirstLoop(ips, i + 1, foundIPv4)
             ELSE FirstLoop(ips, i + 1, foundIPv4)

\* a strategy that never caps the IPv4 addresses
applyMultiIPv4Strategy_NoCap(cfg, ips) ==
    SelectSeq(ips, LAMBDA ip : ParseIP(ip) # Nil)

applyMultiIPv4Strategy(cfg, ips) ==
    IF cfg.ProxmoxMultiIPv4 = "all" THEN ips
    ELSE FirstLoop(ips, 1, FALSE)

(***************************************************************************)
(* ProxmoxClient.generateHostname                                          *)
(***************************************************************************)
\* a synthesis that forgets the FQDN test
generateHostname_NoDotTest(cfg, vmName) ==
    IF cfg.Domain # <<>> THEN vmName \o <<".">> \o cfg.Domain ELSE vmName

\* Domain "" is the empty sequence
generateHostname(cfg, vmName) ==
    IF ~Contains(vmName, ".") /\ cfg.Domain # <<>>
    THEN vmName \o <<".">> \o cfg.Domain
    ELSE vmName

(***************************************************************************)
(* Proxmox tags.  The Tags field is a ";"-separated string; it is held as  *)
(* the sequence of its entries (<<>> for the empty string).  An entry is   *)
(* [key, colon, val]: the text before the first ":", whether a ":" is      *)
(* there, and the text after it as its ","-separated parts.                *)
(***************************************************************************)
EmptyStr == <<"">>

PlainTag(name) == [key |-> name, colon |-> FALSE, val |-> EmptyStr]
ValueTag(name, val) == [key |-> name, colon |-> TRUE, val |-> val]

\* strings.TrimSpace(t) of a tag entry (white space only leads, in this model)
TrimTag(t) == [t EXCEPT !.key = TrimSpace(t.key)]

\* vm.HasTag / container.HasTag of the go-proxmox library, whose body is not
\* in the repository: taken from the tag contract of the specification (tags
\* are one string of entries separated by ";", dnsherpa-skip is an entry of
\* its own), an entry of the split Tags equal to value
HasTag(tags, value) == \E i \in 1..Len(tags) : tags[i] = PlainTag(value)

\* getTagValue(tags, prefix): the text after prefix+":" of the first entry
\* that has this prefix once trimmed, "" when there is none
getTagValue(tags, prefix) ==
    LET hits == {i \in 1..Len(tags) :
                    TrimTag(tags[i]).colon /\ TrimTag(tags[i]).key = prefix}
    IN  IF hits = {} THEN EmptyStr
        ELSE TrimTag(tags[CHOOSE i \in hits : \A j \in hits : i <= j]).val

(***************************************************************************)
(* ResourceHostResolver: getResourceIPs and extractIPsFromInterface.       *)
(* live is what the platform answers for this resource:                    *)
(*   nodeErr  client.Node fails                                            *)
(*   getErr   node.VirtualMachine / node.Container fails                   *)
(*   ifErr    AgentGetNetworkIFaces / Interfaces fails                     *)
(*   ifaces   the interfaces reported otherwise                            *)
(* A qemu interface is [Name, IPAddresses]; an lxc interface is            *)
(* [Name, Inet, Inet6] with Inet and Inet6 held as their "/"-parts.        *)
(***************************************************************************)
RECURSIVE CleanIPs(_, _)
\* the loop over the entries of a dnsherpa-ip value
CleanIPs(ips, i) ==
    IF i > Len(ips) THEN <<>>
    ELSE LET ip == TrimSpace(ips[i])
         IN  IF ParseIP(ip) # Nil
             THEN <<ip>> \o CleanIPs(ips, i + 1)
             ELSE CleanIPs(ips, i + 1)

\* a fallback that reports the failure of the live query as an error
extractIPsFromConfig_Error(resource) == [ips |-> <<>>, err |-> TRUE]

\* extractIPsFromConfig: the stub returns no address and no error
extractIPsFromConfig(resource) == [ips |-> <<>>, err |-> FALSE]

RECURSIVE AgentAddrs(_, _)
\* the inner loop of the qemu branch over iface.IPAddresses
AgentAddrs(addrs, i) ==
    IF i > Len(addrs) THEN <<>>
    ELSE IF addrs[i] # "127.0.0.1" /\ addrs[i] # "::1"
         THEN <<addrs[i]>> \o AgentAddrs(addrs, i + 1)
         ELSE AgentAddrs(addrs, i + 1)

RECURSIVE QemuLoop(_, _, _)
\* the qemu branch: for _, iface := range interfaces
QemuLoop(interfaces, interfaceName, i) ==
    IF i > Len(interfaces) THEN <<>>
    ELSE IF interfaces[i].Name = interfaceName
         THEN AgentAddrs(interfaces[i].IPAddresses, 1)
              \o QemuLoop(interfaces, interfaceName, i + 1)
         ELSE QemuLoop(interfaces, interfaceName, i + 1)

\* the lxc branch for one matching interface: Inet, then Inet6
LxcAddrs(iface) ==
    (IF iface.Inet # EmptyStr /\ iface.Inet # <<"127.0.0.1", "8">>
     THEN <<iface.Inet[1]>> ELSE <<>>)
    \o
    (IF /\ iface.Inet6 # EmptyStr
        /\ ~(iface.Inet6[1] = "::1" /\ Len(iface.Inet6) >= 2)
        /\ ~HasPrefixFe80(iface.Inet6[1])
     THEN <<iface.Inet6[1]>> ELSE <<>>)

RECURSIVE LxcLoop(_, _, _)
\* the lxc branch: for _, iface := range interfaces
LxcLoop(interfaces, interfaceName, i) ==
    IF i > Len(interfaces) THEN <<>>
    ELSE IF interfaces[i].Name = interfaceName
         THEN LxcAddrs(interfaces[i]) \o LxcLoop(interfaces, interfaceName, i + 1)
         ELSE LxcLoop(interfaces, interfaceName, i + 1)

extractIPsFromInterface(cfg, resource, interfaceName, live) ==
    IF live.nodeErr THEN [ips |-> <<>>, err |-> TRUE]
    ELSE IF resource.Type = "qemu"
    THEN IF live.getErr THEN [ips |-> <<>>, err |-> TRUE]
         ELSE IF live.ifErr THEN extractIPsFromConfig(resource)
         ELSE [ips |-> applyMultiIPv4Strategy(cfg,
                           QemuLoop(live.ifaces, interfaceName, 1)),
               err |-> FALSE]
    ELSE IF resource.Type = "lxc"
    THEN IF live.getErr THEN [ips |-> <<>>, err |-> TRUE]
         ELSE IF live.ifErr THEN extractIPsFromConfig(resource)
         ELSE [ips |-> applyMultiIPv4Strategy(cfg,
                           LxcLoop(live.ifaces, interfaceName, 1)),
               err |-> FALSE]
    ELSE [ips |-> applyMultiIPv4Strategy(cfg, <<>>), err |-> FALSE]

\* a resolver that never looks at the dnsherpa-interface tag
getResourceIPs_ConfigOnly(cfg, resource, tags, live) ==
    LET specificIPs == getTagValue(tags, "dnsherpa-ip")
    IN  IF specificIPs # EmptyStr
        THEN [ips |-> CleanIPs(specificIPs, 1), err |-> FALSE]
        ELSE extractIPsFromInterface(cfg, resource, cfg.ProxmoxInterface, live)

getResourceIPs(cfg, resource, tags, live) ==
    LET specificIPs == getTagValue(tags, "dnsherpa-ip")
    IN  IF specificIPs # EmptyStr
        THEN [ips |-> CleanIPs(specificIPs, 1), err |-> FALSE]
        ELSE LET tagged        == getTagValue(tags, "dnsherpa-interface")
                 interfaceName == IF tagged = EmptyStr
                                  THEN cfg.ProxmoxInterface ELSE tagged
             IN  extractIPsFromInterface(cfg, resource, interfaceName, live)

(***************************************************************************)
(* processVM / processContainer.  The result is the outcome up to the call *)
(* of CreateDNSRecords: the Puts that call will issue (none when the       *)
(* resource is skipped, unresolved or without address), whether the        *)
(* function returned a resolution error, and whether the call is made.     *)
(***************************************************************************)
\* processVM without its test of the opt-out tag
processVM_NoSkipTest(cfg, vm, live) ==
    LET got == getResourceIPs(cfg, [Name |-> vm.Name, Type |-> "qemu",
                                    Status |-> vm.Status], vm.Tags, live)
    IN  IF got.err THEN [puts |-> <<>>, err |-> TRUE, called |-> FALSE]
        ELSE IF Len(got.ips) = 0
        THEN [puts |-> <<>>, err |-> FALSE, called |-> FALSE]
        ELSE [puts   |-> DNSRecordsPuts(cfg, generateHostname(cfg, vm.Name), got.ips),
              err    |-> FALSE,
              called |-> TRUE]

processVM(cfg, vm, live) ==
    IF HasTag(vm.Tags, "dnsherpa-skip")
    THEN [puts |-> <<>>, err |-> FALSE, called |-> FALSE]
    ELSE LET hostname     == generateHostname(cfg, vm.Name)
             \* vm.Tags is held split on ";", <<>> when it is ""
             vmTags       == vm.Tags
             fakeResource == [Name |-> vm.Name, Type |-> "qemu", Status |-> vm.Status]
             got          == getResourceIPs(cfg, fakeResource, vmTags, live)
         IN  IF got.err THEN [puts |-> <<>>, err |-> TRUE, called |-> FALSE]
             ELSE IF Len(got.ips) = 0
             THEN [puts |-> <<>>, err |-> FALSE, called |-> FALSE]
             ELSE [puts   |-> DNSRecordsPuts(cfg, hostname, got.ips),
                   err    |-> FALSE,
                   called |-> TRUE]

processContainer(cfg, container, live) ==
    IF HasTag(container.Tags, "dnsherpa-skip")
    THEN [puts |-> <<>>, err |-> FALSE, called |-> FALSE]
    ELSE LET hostname      == generateHostname(cfg, container.Name)
             containerTags == container.Tags
             fakeResource  == [Name |-> container.Name, Type |-> "lxc",
                               Status |-> container.Status]
             got           == getResourceIPs(cfg, fakeResource, containerTags, live)
         IN  IF got.err THEN [puts |-> <<>>, err |-> TRUE, called |-> FALSE]
             ELSE IF Len(got.ips) = 0
             THEN [puts |-> <<>>, err |-> FALSE, called |-> FALSE]
             ELSE [puts   |-> DNSRecordsPuts(cfg, hostname, got.ips),
                   err    |-> FALSE,
                   called |-> TRUE]

(***************************************************************************)
(* ProxmoxClient.syncAllResources as one call.  A node of the answer of     *)
(* client.Nodes is [Node, Status, nodeErr, vmsErr, ctsErr, vms, cts]:       *)
(* whether client.Node, node.VirtualMachines and node.Containers fail for   *)
(* it, and what the last two list otherwise.  A listed resource is          *)
(* [res, live, failAt]: the resource, what the platform answers when it is  *)
(* resolved, and which Put of its CreateDNSRecords call fails (0: none).    *)
(* The result is the store afterwards and the resources processVM or        *)
(* processContainer was called for, as <<node index, type, list index>>.    *)
(***************************************************************************)
\* processVM or processContainer on one listed resource
ProcessEntry(cfg, type, e) ==
    IF type = "qemu" THEN processVM(cfg, e.res, e.live)
    ELSE processContainer(cfg, e.res, e.live)

\* how many of the Puts of a CreateDNSRecords call are made when the Put at
\* position failAt fails (the call returns at the first failing Put)
Issued(puts, failAt) ==
    IF failAt \in 1..Len(puts) THEN failAt - 1 ELSE Len(puts)

\* the key without its last segment
ParentKey(key) ==
    LET parts == Split(key, "/") IN Join(SubSeq(parts, 1, Len(parts) - 1), "/")

\* a CreateDNSRecords that first deletes the records stored for the host
ApplyIssued_DeleteStale(st, puts, failAt) ==
    LET kept == {k \in DOMAIN st :
                    \A i \in 1..Len(puts) : ParentKey(k) # ParentKey(puts[i].key)}
    IN  ApplyPuts([k \in kept |-> st[k]], puts, Issued(puts, failAt))

\* the store after the Puts of one CreateDNSRecords call
ApplyIssued(st, puts, failAt) == ApplyPuts(st, puts, Issued(puts, failAt))

\* processVM / processContainer was called for resource v, a listed resource
\* e: acc is [store, visited], the store and the resources processed so far
Process(cfg, acc, type, e, v) ==
    [store   |-> ApplyIssued(acc.store, ProcessEntry(cfg, type, e).puts, e.failAt),
     visited |-> Append(acc.visited, v)]

\* processVM / processContainer on e returns an error
Fails(puts, err, failAt) == err \/ failAt \in 1..Len(puts)

ProcessFails(r, e) == Fails(r.puts, r.err, e.failAt)

RECURSIVE ResourcesLoop_StopOnError(_, _, _, _, _, _)
\* a loop over resources that ends at the first resource that fails
ResourcesLoop_StopOnError(cfg, acc, type, list, node, i) ==
    IF i > Len(list) THEN acc
    ELSE IF list[i].res.Status # "running"
    THEN ResourcesLoop_StopOnError(cfg, acc, type, list, node, i + 1)
    ELSE IF ProcessFails(ProcessEntry(cfg, type, list[i]), list[i])
    THEN Process(cfg, acc, type, list[i], <<node, type, i>>)
    ELSE ResourcesLoop_StopOnError(cfg, Process(cfg, acc, type, list[i], <<node, type, i>>),
                                   type, list, node, i + 1)

RECURSIVE ResourcesLoop_NoStatusTest(_, _, _, _, _, _)
\* a loop over resources without the test of the status
ResourcesLoop_NoStatusTest(cfg, acc, type, list, node, i) ==
    IF i > Len(list) THEN acc
    ELSE ResourcesLoop_NoStatusTest(cfg, Process(cfg, acc, type, list[i], <<node, type, i>>),
                                    type, list, node, i + 1)

RECURSIVE ResourcesLoop(_, _, _, _, _, _)
\* for _, vm := range vms / for _, container := range containers, from
\* position i on: a resource that is not running is passed over, and an error
\* of processVM / processContainer is logged and the loop continues
ResourcesLoop(cfg, acc, type, list, node, i) ==
    IF i > Len(list) THEN acc
    ELSE IF list[i].res.Status # "running"
    THEN ResourcesLoop(cfg, acc, type, list, node, i + 1)
    ELSE ResourcesLoop(cfg, Process(cfg, acc, type, list[i], <<node, type, i>>),
                       type, list, node, i + 1)

\* node.VirtualMachines and the loop over its answer; an error skips the node's
\* virtual machines
NodeVMs(cfg, acc, n, i) ==
    IF n.vmsErr THEN acc ELSE ResourcesLoop(cfg, acc, "qemu", n.vms, i, 1)

\* node.Containers and the loop over its answer; an error skips the node's
\* containers
NodeContainers(cfg, acc, n, i) ==
    IF n.ctsErr THEN acc ELSE ResourcesLoop(cfg, acc, "lxc", n.cts, i, 1)

RECURSIVE NodesLoop(_, _, _, _)
\* for _, nodeStatus := range nodes, from position i on
NodesLoop(cfg, acc, nodes, i) ==
    IF i > Len(nodes) THEN acc
    ELSE IF nodes[i].Status # "online" \/ nodes[i].nodeErr
    THEN NodesLoop(cfg, acc, nodes, i + 1)
    ELSE NodesLoop(cfg, NodeContainers(cfg, NodeVMs(cfg, acc, nodes[i], i), nodes[i], i),
                   nodes, i + 1)

\* syncAllResources: only a failing client.Nodes makes it return an error; the
\* result is [store, visited, err]
syncAllResources(cfg, st, nodesErr, nodes) ==
    IF nodesErr THEN [store |-> st, visited |-> <<>>, err |-> TRUE]
    ELSE [err |-> FALSE] @@ NodesLoop(cfg, [store |-> st, visited |-> <<>>], nodes, 1)

(***************************************************************************)
(* LabelHostExtractor: DockerClient.extractHostsFromLabels.                *)
(* A label value is a sequence of characters in which the literal text     *)
(* "Host(" is one element.  A label map is a function from label keys to   *)
(* values; Go visits its keys in an unspecified order, given here as       *)
(* order, a sequence listing every key once.                               *)
(***************************************************************************)
\* strings.Contains(key, "traefik.http.routers.") on the label keys of the model
ContainsRouters(key) ==
    key \in {"traefik.http.routers.web.rule", "traefik.http.routers.api.rule",
             "traefik.http.routers.web.entrypoints"}

\* strings.Contains(key, ".rule") on the label keys of the model
ContainsRule(key) ==
    key \in {"traefik.http.routers.web.rule", "traefik.http.routers.api.rule",
             "com.example.rule"}

\* the backtick character (written \x60 in the source of hostRegex)
Backtick == "\\x60"

RECURSIVE SkipSpaces(_, _)
\* optional white space from position i: the first position that holds none
SkipSpaces(value, i) ==
    IF i <= Len(value) /\ value[i] = " " THEN SkipSpaces(value, i + 1) ELSE i

RECURSIVE NextBacktick(_, _)
\* the first position >= i that holds a backtick, Len+1 when there is none
NextBacktick(value, i) ==
    IF i > Len(value) \/ value[i] = Backtick THEN i ELSE NextBacktick(value, i + 1)

\* a matcher that allows no white space inside the parentheses
MatchHostAt_NoSpaces(value, i) ==
    LET close == NextBacktick(value, i + 2)
    IN  IF /\ i + 1 <= Len(value) /\ value[i] = "Host(" /\ value[i + 1] = Backtick
           /\ close + 1 <= Len(value) /\ close > i + 2 /\ value[close + 1] = ")"
        THEN [ok |-> TRUE, host |-> SubSeq(value, i + 2, close - 1), next |-> close + 2]
        ELSE [ok |-> FALSE, host |-> <<>>, next |-> i + 1]

\* one match of hostRegex starting exactly at position i: the literal Host and
\* its parenthesis, white space, a backtick, one or more characters that are
\* no backtick (the submatch), a backtick, white space, a closing parenthesis;
\* [ok, host, next], next being the position after the match
MatchHostAt(value, i) ==
    LET open  == SkipSpaces(value, i + 1)
        close == NextBacktick(value, open + 1)
        paren == SkipSpaces(value, close + 1)
    IN  IF /\ i <= Len(value) /\ value[i] = "Host("
           /\ open <= Len(value) /\ value[open] = Backtick
           /\ close <= Len(value) /\ close > open + 1
           /\ paren <= Len(value) /\ value[paren] = ")"
        THEN [ok |-> TRUE, host |-> SubSeq(value, open + 1, close - 1), next |-> paren + 1]
        ELSE [ok |-> FALSE, host |-> <<>>, next |-> i + 1]

RECURSIVE FindAllHosts(_, _)
\* hostRegex.FindAllStringSubmatch(value, -1): leftmost, non-overlapping
FindAllHosts(value, i) ==
    IF i > Len(value) THEN <<>>
    ELSE LET m == MatchHostAt(value, i)
         IN  IF m.ok THEN <<m.host>> \o FindAllHosts(value, m.next)
             ELSE FindAllHosts(value, m.next)

RECURSIVE LabelsLoop(_, _, _)
\* for key, value := range labels, in the order given
LabelsLoop(labels, order, i) ==
    IF i > Len(order) THEN <<>>
    ELSE IF ContainsRouters(order[i]) /\ ContainsRule(order[i])
         THEN FindAllHosts(labels[order[i]], 1) \o LabelsLoop(labels, order, i + 1)
         ELSE LabelsLoop(labels, order, i + 1)

extractHostsFromLabels(labels, order) == LabelsLoop(labels, order, 1)

\* the orders in which a range over the map may visit its keys
RangeOrders(labels) ==
    {o \in [1..Cardinality(DOMAIN labels) -> DOMAIN labels] :
        \A i, j \in DOMAIN o : o[i] = o[j] => i = j}

(***************************************************************************)
(* DockerClient.SyncExistingContainers                                     *)
(***************************************************************************)
RECURSIVE SyncHosts(_, _, _)
\* the hosts the two nested loops pass to CreateDNSRecord, in order;
\* orders[i] is the visiting order of the labels of list[i]
SyncHosts(list, orders, i) ==
    IF i > Len(list) THEN <<>>
    ELSE extractHostsFromLabels(list[i].Labels, orders[i])
         \o SyncHosts(list, orders, i + 1)

RECURSIVE WriteHosts_StopOnError(_, _, _, _, _)
\* a loop over hosts that breaks on the first failed CreateDNSRecord
WriteHosts_StopOnError(cfg, st, hosts, i, failed) ==
    IF i > Len(hosts) \/ i \in failed THEN st
    ELSE WriteHosts_StopOnError(cfg, CreateDNSRecord(cfg, st, hosts[i], TRUE).store,
                                hosts, i + 1, failed)

RECURSIVE WriteHosts(_, _, _, _, _)
\* for _, host := range hosts { CreateDNSRecord(host) }: an error is logged
\* and the loop goes on; failed is the set of positions whose Put fails
WriteHosts(cfg, st, hosts, i, failed) ==
    IF i > Len(hosts) THEN st
    ELSE WriteHosts(cfg, CreateDNSRecord(cfg, st, hosts[i], i \notin failed).store,
                    hosts, i + 1, failed)

\* SyncExistingContainers on store st, ContainerList answering list
\* (listErr: it fails instead); the result is the store afterwards
SyncExistingContainers(cfg, st, listErr, list, orders, failed) ==
    IF listErr THEN [store |-> st, err |-> TRUE]
    ELSE [store |-> WriteHosts(cfg, st, SyncHosts(list, orders, 1), 1, failed),
          err   |-> FALSE]

(***************************************************************************)
(* DockerClient.handleContainerEvent on store st.  inspect is what         *)
(* ContainerInspect answers ([err, Labels]), order the visiting order of   *)
(* the labels, failed the positions of the hosts whose Put fails.  The     *)
(* result tells whether ContainerInspect was called and how many times     *)
(* CreateDNSRecord was.                                                    *)
(***************************************************************************)
\* handleContainerEvent without its test of the action
handleContainerEvent_NoActionTest(cfg, st, event, inspect, order, failed) ==
    IF event.Type # "container" \/ inspect.err
    THEN [store |-> st, inspected |-> event.Type = "container", created |-> 0]
    ELSE LET hosts == extractHostsFromLabels(inspect.Labels, order)
         IN  [store     |-> WriteHosts(cfg, st, hosts, 1, failed),
              inspected |-> TRUE,
              created   |-> Len(hosts)]

handleContainerEvent(cfg, st, event, inspect, order, failed) ==
    IF event.Type # "container"
    THEN [store |-> st, inspected |-> FALSE, created |-> 0]
    ELSE IF event.Action # "start"
    THEN [store |-> st, inspected |-> FALSE, created |-> 0]
    ELSE IF inspect.err
    THEN [store |-> st, inspected |-> TRUE, created |-> 0]
    ELSE LET hosts == extractHostsFromLabels(inspect.Labels, order)
         IN  IF Len(hosts) = 0
             THEN [store |-> st, inspected |-> TRUE, created |-> 0]
             ELSE [store     |-> WriteHosts(cfg, st, hosts, 1, failed),
                   inspected |-> TRUE,
                   created   |-> Len(hosts)]

(***************************************************************************)
(* Single calls: one function applied to arguments drawn from bounded sets *)
(***************************************************************************)
SeqUpTo(S, n) == UNION {[1..k -> S] : k \in 0..n}

\* Config as LoadConfig fills it; RecordTTL is the fixed 300
Config(prefix, target, domain, interface, multi) ==
    [EtcdPrefix       |-> prefix,
     DNSTarget        |-> target,
     RecordTTL        |-> RecordTTL,
     Domain           |-> domain,
     AgentMode        |-> "docker",
     ProxmoxAPIURL    |-> "https://pve:8006",
     ProxmoxPollInterval |-> 30000,
     ProxmoxInterface |-> interface,
     ProxmoxMultiIPv4 |-> multi]

NameChars == {"a", "b", "."}
Names == SeqUpTo(NameChars, MaxNameLen)
Prefixes == {<<"/", "s">>, <<"/", "s", "/", "d">>}
Domains == {<<>>, <<"l">>, <<"h", ".", "l">>}
Targets == {"192.0.2.5", "2001:db8::5", "traefik.lab"}
Strategies == {"first", "all"}
AddrPool == {"10.0.0.1", "10.0.0.2", "2001:db8::1", "::ffff:10.0.0.3", "fe80::1", "bogus"}

RecordsPool == {"10.0.0.1", "::ffff:10.0.0.3", "2001:db8::1", "bogus"}

DefaultConfig == Config(<<"/", "s">>, "traefik.lab", <<"l">>, <<"eth0">>, "first")

StrategyCall(m, ips) ==
    [op |-> "applyMultiIPv4Strategy",
     cfg |-> [DefaultConfig EXCEPT !.ProxmoxMultiIPv4 = m], ips |-> ips]

HostnameCall(d, n) ==
    [op |-> "generateHostname",
     cfg |-> [DefaultConfig EXCEPT !.Domain = d], vmName |-> n]

KeyCall(p, h) ==
    [op |-> "key",
     cfg |-> [DefaultConfig EXCEPT !.EtcdPrefix = p], hostname |-> h]

RecordsCall(h, ips, f) ==
    [op |-> "CreateDNSRecords", cfg |-> DefaultConfig,
     hostname |-> h, ips |-> ips, failAt |-> f]

\* tag entries a resource may carry
TagEntries ==
    {PlainTag("dnsherpa-skip"),
     PlainTag("web"),
     ValueTag("dnsherpa-ip", <<"192.0.2.5", "2001:db8::5">>),
     ValueTag("dnsherpa-ip", <<"bogus">>),
     ValueTag("dnsherpa-ip", EmptyStr),
     ValueTag(" dnsherpa-ip", <<" 10.0.0.1", "bogus", "127.0.0.1">>),
     ValueTag("dnsherpa-interface", <<"eth1">>),
     ValueTag("dnsherpa-interface", EmptyStr)}

Answer(nodeErr, getErr, ifErr, ifaces) ==
    [nodeErr |-> nodeErr, getErr |-> getErr, ifErr |-> ifErr, ifaces |-> ifaces]

AgentIface(name, addrs) == [Name |-> <<name>>, IPAddresses |-> addrs]
LxcIface(name, inet, inet6) == [Name |-> <<name>>, Inet |-> inet, Inet6 |-> inet6]

\* what the platform may answer for a qemu resource
QemuAnswers ==
    {Answer(TRUE, FALSE, FALSE, <<>>),
     Answer(FALSE, TRUE, FALSE, <<>>),
     Answer(FALSE, FALSE, TRUE, <<>>),
     Answer(FALSE, FALSE, FALSE, <<>>),
     Answer(FALSE, FALSE, FALSE,
            <<AgentIface("lo", <<"127.0.0.1", "::1">>),
              AgentIface("eth0", <<"10.0.0.1", "10.0.0.2", "2001:db8::1">>),
              AgentIface("eth1", <<"192.0.2.5">>)>>),
     Answer(FALSE, FALSE, FALSE,
            <<AgentIface("eth0", <<"127.0.0.1", "::1", "10.0.0.2", "fe80::1">>),
              AgentIface("eth0", <<"2001:db8::2">>)>>),
     Answer(FALSE, FALSE, FALSE,
            <<AgentIface("eth0", <<"127.0.0.2", "bogus">>)>>)}

\* what the platform may answer for an lxc resource
LxcAnswers ==
    {Answer(TRUE, FALSE, FALSE, <<>>),
     Answer(FALSE, TRUE, FALSE, <<>>),
     Answer(FALSE, FALSE, TRUE, <<>>),
     Answer(FALSE, FALSE, FALSE, <<>>),
     Answer(FALSE, FALSE, FALSE,
            <<LxcIface("lo", <<"127.0.0.1", "8">>, <<"::1", "128">>),
              LxcIface("eth0", <<"10.0.0.1", "24">>, <<"fe80::1", "64">>),
              LxcIface("eth1", <<"192.0.2.5", "24">>, <<"2001:db8::1", "64">>)>>),
     Answer(FALSE, FALSE, FALSE,
            <<LxcIface("eth0", <<"10.0.0.2", "24">>, <<"2001:db8::2", "64">>),
              LxcIface("eth0", EmptyStr, <<"::1", "128">>)>>),
     Answer(FALSE, FALSE, FALSE,
            <<LxcIface("eth0", <<"127.0.0.2", "8">>, EmptyStr)>>)}

Answers(type) == IF type = "qemu" THEN QemuAnswers ELSE LxcAnswers

ResolveCall(t, m, n, tags, live) ==
    [op |-> "getResourceIPs",
     cfg |-> [DefaultConfig EXCEPT !.ProxmoxMultiIPv4 = m, !.ProxmoxInterface = <<n>>],
     resource |-> [Name |-> <<"a">>, Type |-> t, Status |-> "running"],
     tags |-> tags, live |-> live]

\* the text  Host(<backtick>h<backtick>)  of a router rule
HostRule(h) == <<"Host(", Backtick>> \o h \o <<Backtick, ")">>

\* two router rules, the first naming two hosts
LabelsMany ==
    ("traefik.http.routers.web.rule" :>
        (HostRule(<<"a", ".", "b">>) \o <<" ", "&", "&", " ">> \o HostRule(<<"c">>)))
    @@ ("traefik.http.routers.api.rule" :>
        (<<"Host(", " ", Backtick, "c", ".", "b", Backtick, " ", ")">>))

\* no router rule: a key without the routers prefix, a key without the suffix
LabelsOther ==
    ("com.example.rule" :> HostRule(<<"x">>))
    @@ ("traefik.http.routers.web.entrypoints" :> HostRule(<<"y">>))

Container(id, labels) == [ID |-> id, Labels |-> labels]

ContainerPool == {Container("c1", LabelsMany), Container("c2", LabelsOther)}

\* one visiting order per container of the list
OrdersOf(list) ==
    {o \in [1..Len(list) -> UNION {RangeOrders(list[i].Labels) : i \in 1..Len(list)}] :
        \A i \in 1..Len(list) : o[i] \in RangeOrders(list[i].Labels)}

StaleStore == <<"/", "s", "/", "z">> :> [host |-> "old", ttl |-> 300]

SyncCall(cs, st) ==
    [op |-> "SyncExistingContainers", cfg |-> DefaultConfig,
     containers |-> cs, store |-> st]

\* one router with one host
LabelsSolo == ("traefik.http.routers.web.rule" :> HostRule(<<"x", ".", "b">>))

\* the sets of positions at which a Put fails
FailedSets == SUBSET (1..MaxFailedAt)

\* SyncExistingContainers with Puts failing at the positions of failed
SyncFailuresCall(cs, failed) ==
    [op |-> "SyncExistingContainers/failures", cfg |-> DefaultConfig,
     containers |-> cs, store |-> StaleStore, failed |-> failed]

\* processVM (qemu) or processContainer (lxc) on one resource of a node
ProcessCall(t, m, n, tags, live) ==
    [op |-> "process",
     cfg |-> [DefaultConfig EXCEPT !.ProxmoxMultiIPv4 = m, !.ProxmoxInterface = <<n>>],
     type |-> t,
     resource |-> [Name |-> <<"a">>, Status |-> "running", Tags |-> tags],
     store |-> StaleStore,
     live |-> live]

Resource(name, status, tags) == [Name |-> name, Status |-> status, Tags |-> tags]

NodeOf(name, status, vms, cts) ==
    [Node |-> name, Status |-> status, vms |-> vms, cts |-> cts]

\* a resource as a node lists it, with the answers it meets
Entry(res, live, failAt) == [res |-> res, live |-> live, failAt |-> failAt]

\* a node of the answer of client.Nodes, with the failures it meets
FaultyNode(name, status, nodeErr, vmsErr, ctsErr, vms, cts) ==
    [Node |-> name, Status |-> status, nodeErr |-> nodeErr, vmsErr |-> vmsErr,
     ctsErr |-> ctsErr, vms |-> vms, cts |-> cts]

\* a guest agent and a container that report eth0 with one address per family
AgentUp == Answer(FALSE, FALSE, FALSE,
                  <<AgentIface("eth0", <<"10.0.0.1", "2001:db8::1">>)>>)
LxcUp == Answer(FALSE, FALSE, FALSE,
                <<LxcIface("eth0", <<"10.0.0.2", "24">>, <<"2001:db8::2", "64">>)>>)

\* the ways the resolution of a resource fails or finds nothing
AnswersDown ==
    {Answer(TRUE, FALSE, FALSE, <<>>), Answer(FALSE, TRUE, FALSE, <<>>),
     Answer(FALSE, FALSE, TRUE, <<>>)}

SyncAllCall(nodesErr, nodes) ==
    [op |-> "syncAllResources", cfg |-> DefaultConfig, store |-> StaleStore,
     nodesErr |-> nodesErr, nodes |-> nodes]

\* a guest agent that reports eth0 with two IPv4 addresses, and with one
AgentTwo == Answer(FALSE, FALSE, FALSE,
                   <<AgentIface("eth0", <<"10.0.0.1", "10.0.0.2">>)>>)
AgentOne == Answer(FALSE, FALSE, FALSE, <<AgentIface("eth0", <<"10.0.0.2">>)>>)

\* one online node with the VM a (two IPv4 addresses) and the container c
ClusterBefore ==
    <<FaultyNode("pve1", "online", FALSE, FALSE, FALSE,
                 <<Entry(Resource(<<"a">>, "running", <<>>), AgentTwo, 0)>>,
                 <<Entry(Resource(<<"c">>, "running", <<>>), LxcUp, 0)>>)>>

\* what became of the VM a when the next poll runs
Changes == {"same", "stopped", "skip", "one address", "gone", "offline"}

ClusterAfter(change) ==
    <<FaultyNode("pve1", IF change = "offline" THEN "offline" ELSE "online",
                 FALSE, FALSE, FALSE,
                 IF change = "gone" THEN <<>>
                 ELSE <<Entry(Resource(<<"a">>,
                                       IF change = "stopped" THEN "stopped" ELSE "running",
                                       IF change = "skip"
                                       THEN <<PlainTag("dnsherpa-skip")>> ELSE <<>>),
                              IF change = "one address" THEN AgentOne ELSE AgentTwo, 0)>>,
                 <<Entry(Resource(<<"c">>, "running", <<>>), LxcUp, 0)>>)>>

\* two polls of syncAllResources, the cluster changing in between
SyncLaterCall(m, change) ==
    [op |-> "syncAllResources/later",
     cfg |-> [DefaultConfig EXCEPT !.ProxmoxMultiIPv4 = m], store |-> StaleStore,
     change |-> change, before |-> ClusterBefore, after |-> ClusterAfter(change)]

\* two runs of SyncExistingContainers, the list of containers changing in between
DockerLaterCall(before, after) ==
    [op |-> "SyncExistingContainers/later", cfg |-> DefaultConfig,
     store |-> StaleStore, before |-> before, after |-> after]

NotCalled == [done |-> FALSE]

\* label keys and the characters of label values
LabelKeys ==
    {"traefik.http.routers.web.rule", "traefik.http.routers.api.rule",
     "com.example.rule", "traefik.http.routers.web.entrypoints"}

ValueChars == {"Host(", Backtick, "a", ")", " "}

\* two rules: a host named twice; a rule without backticks, an empty host,
\* an unclosed clause and a well-formed one
LabelsTwice ==
    ("traefik.http.routers.web.rule" :>
        (HostRule(<<"a">>) \o <<" ", "|", "|", " ">> \o HostRule(<<"b">>)
         \o <<" ", "|", "|", " ">> \o HostRule(<<"a">>)))
    @@ ("traefik.http.routers.api.rule" :>
        (<<"Host(", "c", ")", "Host(", Backtick, Backtick, ")",
           "Host(", Backtick, "d", Backtick, " ">> \o HostRule(<<"c", ".", "b">>)))

LabelsPool == {LabelsMany, LabelsOther, LabelsTwice}

ExtractCall(labels, order) ==
    [op |-> "extractHostsFromLabels", labels |-> labels, order |-> order]

\* Docker event types and actions
EventTypes == {"container", "image", "network"}
EventActions == {"start", "die", "create"}

EventCall(st, event, inspect, order, failed) ==
    [op |-> "handleContainerEvent", cfg |-> DefaultConfig, store |-> st,
     event |-> event, inspect |-> inspect, order |-> order, failed |-> failed]

\* the characters of the hostnames of the namespace checks
HostChars == {"a", "1", "."}

\* the keys under which both writers put a host: CreateDNSRecord for a host
\* of a label, CreateDNSRecords for a resource name and its addresses
NamespaceCall(host, vmName, ips) ==
    [op |-> "namespaces", cfg |-> [DefaultConfig EXCEPT !.Domain = <<>>],
     host |-> host, vmName |-> vmName, ips |-> ips]

CallStrategy ==
    /\ call.op = "applyMultiIPv4Strategy" /\ ~ret.done
    /\ ret' = [done |-> TRUE, ips |-> applyMultiIPv4Strategy(call.cfg, call.ips)]
    /\ UNCHANGED <<call, runVars>>

CallHostname ==
    /\ call.op = "generateHostname" /\ ~ret.done
    /\ ret' = [done |-> TRUE, hostname |-> generateHostname(call.cfg, call.vmName)]
    /\ UNCHANGED <<call, runVars>>

CallKey ==
    /\ call.op = "key" /\ ~ret.done
    /\ ret' = [done     |-> TRUE,
               key      |-> DNSRecordKey(call.cfg, call.hostname),
               basePath |-> BasePath(call.cfg, call.hostname)]
    /\ UNCHANGED <<call, runVars>>

CallRecords ==
    /\ call.op = "CreateDNSRecords" /\ ~ret.done
    /\ LET r == CreateDNSRecords(call.cfg, EmptyStore, call.hostname, call.ips, call.failAt)
       IN  ret' = [done |-> TRUE, store |-> r.store, err |-> r.err, puts |-> r.puts]
    /\ UNCHANGED <<call, runVars>>

CallResolve ==
    /\ call.op = "getResourceIPs" /\ ~ret.done
    /\ LET r == getResourceIPs(call.cfg, call.resource, call.tags, call.live)
       IN  ret' = [done |-> TRUE, ips |-> r.ips, err |-> r.err]
    /\ UNCHANGED <<call, runVars>>

\* processVM / processContainer, then the Puts of its CreateDNSRecords call
\* on the store of the call
CallProcess ==
    /\ call.op = "process" /\ ~ret.done
    /\ LET r == IF call.type = "qemu"
                THEN processVM(call.cfg, call.resource, call.live)
                ELSE processContainer(call.cfg, call.resource, call.live)
       IN  ret' = [done |-> TRUE, puts |-> r.puts, err |-> r.err, called |-> r.called,
                   store |-> ApplyPuts(call.store, r.puts, Len(r.puts))]
    /\ UNCHANGED <<call, runVars>>

CallSyncAll ==
    /\ call.op = "syncAllResources" /\ ~ret.done
    /\ ret' = [done |-> TRUE]
              @@ syncAllResources(call.cfg, call.store, call.nodesErr, call.nodes)
    /\ UNCHANGED <<call, runVars>>

\* the first run of SyncExistingContainers, on the store the call starts from:
\* the labels are visited in some order; ContainerList may fail, or the first
\* Put may fail
CallSync ==
    /\ call.op = "SyncExistingContainers" /\ ~ret.done
    /\ \E orders \in OrdersOf(call.containers), listErr \in BOOLEAN, putErr \in BOOLEAN :
         LET r == SyncExistingContainers(call.cfg, call.store, listErr,
                      call.containers, orders, IF putErr THEN {1} ELSE {})
         IN  ret' = [done |-> TRUE, runs |-> 1, first |-> r.store,
                     store |-> r.store, ok |-> ~listErr /\ ~putErr,
                     order1 |-> orders, reordered |-> FALSE]
    /\ UNCHANGED <<call, runVars>>

\* a second run with the same container state, on the store the first run left
CallSyncAgain ==
    /\ call.op = "SyncExistingContainers" /\ ret.done /\ ret.runs = 1
    /\ \E orders \in OrdersOf(call.containers), listErr \in BOOLEAN, putErr \in BOOLEAN :
         LET r == SyncExistingContainers(call.cfg, ret.store, listErr,
                      call.containers, orders, IF putErr THEN {1} ELSE {})
         IN  ret' = [ret EXCEPT !.runs = 2, !.store = r.store,
                                !.ok = ret.ok /\ ~listErr /\ ~putErr,
                                !.reordered = (orders # ret.order1)]
    /\ UNCHANGED <<call, runVars>>

\* one run of SyncExistingContainers in which the Puts at the positions of
\* call.failed fail; hosts are the hosts of the listed containers, in the
\* order the loops reach them
CallSyncFailures ==
    /\ call.op = "SyncExistingContainers/failures" /\ ~ret.done
    /\ \E orders \in OrdersOf(call.containers), listErr \in BOOLEAN :
         LET r == SyncExistingContainers(call.cfg, call.store, listErr,
                      call.containers, orders, call.failed)
         IN  ret' = [done |-> TRUE, store |-> r.store, err |-> r.err,
                     hosts |-> IF listErr THEN <<>>
                               ELSE SyncHosts(call.containers, orders, 1)]
    /\ UNCHANGED <<call, runVars>>

\* a poll on the cluster as it was, then a poll on the cluster as it is now,
\* on the store the first poll left
CallSyncLater ==
    /\ call.op = "syncAllResources/later" /\ ~ret.done
    /\ ret' = [done  |-> TRUE,
               first |-> syncAllResources(call.cfg, call.store, FALSE, call.before).store,
               store |-> syncAllResources(call.cfg,
                            syncAllResources(call.cfg, call.store, FALSE, call.before).store,
                            FALSE, call.after).store]
    /\ UNCHANGED <<call, runVars>>

\* a sync on the containers as they were, then a sync on those that are left
CallDockerLater ==
    /\ call.op = "SyncExistingContainers/later" /\ ~ret.done
    /\ \E o1 \in OrdersOf(call.before), o2 \in OrdersOf(call.after) :
         ret' = [done  |-> TRUE,
                 first |-> SyncExistingContainers(call.cfg, call.store, FALSE,
                               call.before, o1, {}).store,
                 store |-> SyncExistingContainers(call.cfg,
                               SyncExistingContainers(call.cfg, call.store, FALSE,
                                   call.before, o1, {}).store,
                               FALSE, call.after, o2, {}).store]
    /\ UNCHANGED <<call, runVars>>

CallExtract ==
    /\ call.op = "extractHostsFromLabels" /\ ~ret.done
    /\ ret' = [done |-> TRUE, hosts |-> extractHostsFromLabels(call.labels, call.order)]
    /\ UNCHANGED <<call, runVars>>

\* two calls of extractHostsFromLabels on one label map: each call ranges
\* over the map in an order of its own (Go does not fix the order of a range
\* over a map)
CallExtractTwice ==
    /\ call.op = "extractHostsFromLabels/twice" /\ ~ret.done
    /\ \E o1 \in RangeOrders(call.labels), o2 \in RangeOrders(call.labels) :
         ret' = [done   |-> TRUE,
                 first  |-> extractHostsFromLabels(call.labels, o1),
                 second |-> extractHostsFromLabels(call.labels, o2)]
    /\ UNCHANGED <<call, runVars>>

CallEvent ==
    /\ call.op = "handleContainerEvent" /\ ~ret.done
    /\ LET r == handleContainerEvent(call.cfg, call.store, call.event, call.inspect,
                                     call.order, call.failed)
       IN  ret' = [done |-> TRUE, store |-> r.store, inspected |-> r.inspected,
                   created |-> r.created]
    /\ UNCHANGED <<call, runVars>>

(***************************************************************************)
(* LoadConfig: PROXMOX_POLL_INTERVAL                                       *)
(***************************************************************************)
\* getEnv: the value of the variable, or the default when it is unset or empty
getEnv(value, defaultValue) == IF value # <<>> THEN value ELSE defaultValue

IsDigitChar(c) == \E i \in 1..10 : DigitChars[i] = c

DigitValue(c) == (CHOOSE i \in 1..10 : DigitChars[i] = c) - 1

\* the units of time.ParseDuration, in milliseconds (the model counts
\* durations in milliseconds, so the units below a millisecond are left out)
UnitMap ==
    (<<"m", "s">> :> 1) @@ (<<"s">> :> 1000) @@ (<<"m">> :> 60000)
    @@ (<<"h">> :> 3600000)

RECURSIVE LeadingInt(_, _, _)
\* the digits from position i on: their value and the position after them
LeadingInt(s, i, x) ==
    IF i <= Len(s) /\ IsDigitChar(s[i])
    THEN LeadingInt(s, i + 1, x * 10 + DigitValue(s[i]))
    ELSE [x |-> x, next |-> i]

RECURSIVE UnitEnd(_, _)
\* the unit runs up to the next digit or dot
UnitEnd(s, i) ==
    IF i <= Len(s) /\ ~IsDigitChar(s[i]) /\ s[i] # "."
    THEN UnitEnd(s, i + 1)
    ELSE i

RECURSIVE DurationLoop(_, _, _)
\* the loop of time.ParseDuration over the number-unit pairs; a pair without
\* digits, without a unit or with an unknown unit is an error, and the
\* duration returned with an error is 0
DurationLoop(s, i, d) ==
    IF i > Len(s) THEN [d |-> d, err |-> FALSE]
    ELSE IF LeadingInt(s, i, 0).next = i
              \/ SubSeq(s, LeadingInt(s, i, 0).next,
                        UnitEnd(s, LeadingInt(s, i, 0).next) - 1) \notin DOMAIN UnitMap
         THEN [d |-> 0, err |-> TRUE]
         ELSE DurationLoop(s, UnitEnd(s, LeadingInt(s, i, 0).next),
                           d + LeadingInt(s, i, 0).x
                               * UnitMap[SubSeq(s, LeadingInt(s, i, 0).next,
                                                UnitEnd(s, LeadingInt(s, i, 0).next) - 1)])

\* time.ParseDuration on strings without a fraction: sign, then "0" alone or
\* number-unit pairs
ParseDuration(s) ==
    LET signed == s # <<>> /\ s[1] \in {"-", "+"}
        rest   == IF signed THEN Tail(s) ELSE s
    IN  IF rest = <<"0">> THEN [d |-> 0, err |-> FALSE]
        ELSE IF rest = <<>> THEN [d |-> 0, err |-> TRUE]
        ELSE IF DurationLoop(rest, 1, 0).err THEN [d |-> 0, err |-> TRUE]
        ELSE [d   |-> IF s[1] = "-" THEN 0 - DurationLoop(rest, 1, 0).d
                      ELSE DurationLoop(rest, 1, 0).d,
              err |-> FALSE]

\* proxmoxPollInterval, _ := time.ParseDuration(getEnv(..., "30s")): the
\* error is dropped
ProxmoxPollInterval(env) == ParseDuration(getEnv(env, <<"3", "0", "s">>)).d

\* time.NewTicker(d) panics when d is not positive
NewTicker(d) == IF d <= 0 THEN "panic" ELSE "ticking"

\* the values of PROXMOX_POLL_INTERVAL: <<>> is the variable unset
DurationChars == {"-", "0", "3", "s", "m", "x"}

\* LoadConfig, then what StartMonitoring meets at time.NewTicker after its
\* initial pass
CallLoadConfig ==
    /\ call.op = "LoadConfig" /\ ~ret.done
    /\ ret' = [done                |-> TRUE,
               ProxmoxPollInterval |-> ProxmoxPollInterval(call.env),
               ticker              |-> NewTicker(ProxmoxPollInterval(call.env))]
    /\ UNCHANGED <<call, runVars>>

CallNamespaces ==
    /\ call.op = "namespaces" /\ ~ret.done
    /\ LET puts == DNSRecordsPuts(call.cfg, generateHostname(call.cfg, call.vmName),
                                  call.ips)
       IN  ret' = [done    |-> TRUE,
                   docker  |-> {DNSRecordPut(call.cfg, call.host).key},
                   proxmox |-> {puts[i].key : i \in 1..Len(puts)}]
    /\ UNCHANGED <<call, runVars>>

\* no resource has been processed in this pass
NoResource == [Name |-> <<>>, Status |-> "none", Tags |-> <<>>]

\* nothing is running: the reconcilers have not been started
Idle ==
    /\ config = DefaultConfig
    /\ containers = <<>> /\ dStream = <<>> /\ dEvent = NoEvent
    /\ cluster = <<>>
    /\ store = EmptyStore
    /\ origin = EmptyStore
    /\ dpc = "off" /\ dQueue = <<>>
    /\ ppc = "off" /\ pNodes = <<>> /\ pStage = "node" /\ pList = <<>>
    /\ pRes = NoResource /\ pPuts = <<>> /\ pInitial = Nil
    /\ proc = "up" /\ spc = "init" /\ sret = Nil /\ dret = Nil /\ pret = Nil
    /\ errChan = Nil /\ healed = FALSE

\* one call, its receiver and arguments drawn from the sets above
InitFn ==
    /\ \/ \E m \in Strategies, ips \in SeqUpTo(AddrPool, MaxIPs) :
            call = StrategyCall(m, ips)
       \/ \E d \in Domains, n \in Names : call = HostnameCall(d, n)
       \/ \E p \in Prefixes, h \in Names : call = KeyCall(p, h)
       \/ \E h \in {<<"a">>, <<"a", ".", "b">>},
             ips \in SeqUpTo(RecordsPool, MaxIPs), f \in 0..MaxIPs :
            call = RecordsCall(h, ips, f)
       \/ \E t \in {"qemu", "lxc"}, m \in Strategies, n \in {"eth0", "eth1"},
             tags \in SeqUpTo(TagEntries, MaxTags) :
            \E live \in Answers(t) : call = ResolveCall(t, m, n, tags, live)
       \/ \E t \in {"qemu", "lxc"}, m \in Strategies, n \in {"eth0", "eth1"},
             tags \in SeqUpTo(TagEntries, MaxTags) :
            \E live \in Answers(t) : call = ProcessCall(t, m, n, tags, live)
       \/ \E nodesErr \in BOOLEAN, status \in {"online", "offline"},
             nodeErr \in BOOLEAN, vmsErr \in BOOLEAN, ctsErr \in BOOLEAN,
             vStatus \in {"running", "stopped"}, vLive \in {AgentUp} \cup AnswersDown,
             vFail \in 0..2,
             cStatus \in {"running", "paused"}, cLive \in {LxcUp} \cup AnswersDown :
            call = SyncAllCall(nodesErr,
                     <<FaultyNode("pve1", status, nodeErr, vmsErr, ctsErr,
                          <<Entry(Resource(<<"a">>, vStatus, <<>>), vLive, vFail),
                            Entry(Resource(<<"b">>, "running", <<>>), AgentUp, 0)>>,
                          <<Entry(Resource(<<"c">>, cStatus, <<>>), cLive, 0)>>),
                       FaultyNode("pve2", "online", FALSE, FALSE, FALSE,
                          <<Entry(Resource(<<"d">>, "running", <<>>), AgentUp, 0)>>,
                          <<Entry(Resource(<<"e">>, "running", <<>>), LxcUp, 0)>>)>>)
       \/ \E cs \in SeqUpTo(ContainerPool, MaxContainers),
             st \in {EmptyStore, StaleStore} :
            call = SyncCall(cs, st)
       \/ \E failed \in FailedSets,
             cs \in {<<Container("c1", LabelsMany), Container("c3", LabelsSolo)>>,
                     <<Container("c3", LabelsSolo), Container("c2", LabelsOther),
                       Container("c1", LabelsMany)>>} :
            call = SyncFailuresCall(cs, failed)
       \/ \E m \in Strategies, change \in Changes : call = SyncLaterCall(m, change)
       \/ \E after \in {<<>>, <<Container("c3", LabelsSolo)>>,
                         <<Container("c1", LabelsMany)>>,
                         <<Container("c1", LabelsSolo)>>} :
            call = DockerLaterCall(<<Container("c1", LabelsMany),
                                     Container("c3", LabelsSolo)>>, after)
       \/ \E k \in LabelKeys, v \in SeqUpTo(ValueChars, MaxValueLen) :
            call = ExtractCall(k :> v, <<k>>)
       \/ \E labels \in LabelsPool :
            \E order \in RangeOrders(labels) : call = ExtractCall(labels, order)
       \/ \E labels \in LabelsPool \cup {LabelsSolo} :
            call = [op |-> "extractHostsFromLabels/twice", labels |-> labels]
       \/ \E st \in {EmptyStore, StaleStore}, t \in EventTypes, a \in EventActions,
             inspectErr \in BOOLEAN, labels \in {LabelsMany, LabelsOther},
             failed \in FailedSets :
            \E order \in RangeOrders(labels) :
               call = EventCall(st, [Type |-> t, Action |-> a, ID |-> "c1"],
                                [err |-> inspectErr, Labels |-> labels], order, failed)
       \/ \E host \in SeqUpTo(HostChars, MaxHostLen),
             vmName \in {<<"a">>, <<"a", ".", "a">>, <<"1", ".", "a">>},
             ips \in {<<"10.0.0.1">>, <<"10.0.0.1", "2001:db8::1", "10.0.0.2">>} :
            call = NamespaceCall(host, vmName, ips)
       \/ \E env \in SeqUpTo(DurationChars, MaxDurationLen) :
            call = [op |-> "LoadConfig", env |-> env]
    /\ ret = NotCalled
    /\ Idle

NextFn ==
    \/ CallStrategy
    \/ CallHostname
    \/ CallKey
    \/ CallRecords
    \/ CallResolve
    \/ CallProcess
    \/ CallSyncAll
    \/ CallSync
    \/ CallSyncFailures
    \/ CallSyncLater
    \/ CallDockerLater
    \/ CallSyncAgain
    \/ CallExtract
    \/ CallExtractTwice
    \/ CallEvent
    \/ CallNamespaces
    \/ CallLoadConfig

SpecFn == InitFn /\ [][NextFn]_vars

(***************************************************************************)
(* The reconcilers.  Each Put is a step of its own; what the platforms     *)
(* answer (errors, live interface data) is chosen at each call.            *)
(***************************************************************************)
NoCall == [op |-> "none"]

\* clusters the Proxmox API may describe
Clusters ==
    {<<NodeOf("pve1", "online",
              <<Resource(<<"w">>, "running",
                         <<PlainTag("dnsherpa-skip"),
                           ValueTag("dnsherpa-ip", <<"192.0.2.5", "2001:db8::5">>)>>),
                Resource(<<"a", ".", "b">>, "running", <<>>),
                Resource(<<"v">>, "stopped", <<>>)>>,
              <<Resource(<<"c">>, "running",
                         <<ValueTag("dnsherpa-interface", <<"eth1">>)>>)>>)>>,
     <<NodeOf("pve1", "offline",
              <<Resource(<<"v">>, "running", <<>>)>>, <<>>),
       NodeOf("pve2", "online",
              <<Resource(<<"w">>, "running",
                         <<ValueTag("dnsherpa-ip", <<"192.0.2.5", "2001:db8::5">>)>>)>>,
              <<Resource(<<"c">>, "running",
                         <<PlainTag("dnsherpa-skip"),
                           ValueTag("dnsherpa-interface", <<"eth1">>)>>)>>)>>}

\* what the platform answers in the runs of the reconciler
RunAnswers(type) ==
    IF type = "qemu"
    THEN {Answer(FALSE, FALSE, TRUE, <<>>),
          Answer(FALSE, TRUE, FALSE, <<>>),
          Answer(FALSE, FALSE, FALSE,
                 <<AgentIface("lo", <<"127.0.0.1", "::1">>),
                   AgentIface("eth0", <<"10.0.0.1", "10.0.0.2", "2001:db8::1">>),
                   AgentIface("eth1", <<"192.0.2.5">>)>>)}
    ELSE {Answer(FALSE, FALSE, TRUE, <<>>),
          Answer(FALSE, FALSE, FALSE,
                 <<LxcIface("lo", <<"127.0.0.1", "8">>, <<"::1", "128">>),
                   LxcIface("eth0", <<"10.0.0.1", "24">>, <<"fe80::1", "64">>),
                   LxcIface("eth1", <<"192.0.2.5", "24">>, <<"2001:db8::1", "64">>)>>)}

\* the answer of a platform that works: every interface with its addresses
GoodAnswer(type) ==
    CHOOSE a \in RunAnswers(type) : ~a.nodeErr /\ ~a.getErr /\ ~a.ifErr

\* the failures the calls of a run can meet: any, until the platforms have
\* stopped failing (healed), none afterwards
Failures == IF healed THEN {FALSE} ELSE BOOLEAN

PutResults == IF healed THEN {TRUE} ELSE BOOLEAN

LiveAnswers(type) == IF healed THEN {GoodAnswer(type)} ELSE RunAnswers(type)

\* Docker events
Events ==
    {[Type |-> "container", Action |-> "start", ID |-> "c1"],
     [Type |-> "container", Action |-> "die", ID |-> "c1"],
     [Type |-> "network", Action |-> "start", ID |-> "c1"],
     [Type |-> "container", Action |-> "start", ID |-> "gone"]}

\* a configuration of a run: agent mode, DNS target, multi-address strategy
RunConfig(mode, target, multi) ==
    [Config(<<"/", "s">>, target, <<"l">>, <<"eth0">>, multi) EXCEPT !.AgentMode = mode]

\* the configurations of the runs: every target alone and beside Proxmox,
\* both strategies alone and beside Docker, and an agent mode that is none
RunConfigs ==
    {RunConfig("docker", t, "first") : t \in Targets}
    \cup {RunConfig("proxmox", "traefik.lab", m) : m \in Strategies}
    \cup {RunConfig("hybrid", "traefik.lab", "first"),
          RunConfig("hybrid", "192.0.2.5", "all"),
          RunConfig("hybrid", "2001:db8::5", "all")}
    \cup {RunConfig("swarm", "traefik.lab", "first")}

\* main has built the automator and is about to call Start
InitOn(configs, clusters, lists) ==
    /\ config \in configs
    /\ containers \in lists /\ dStream = <<>> /\ dEvent = NoEvent
    /\ cluster \in clusters
    /\ store = EmptyStore
    /\ origin = EmptyStore
    /\ dpc = "off" /\ dQueue = <<>>
    /\ ppc = "off" /\ pNodes = <<>> /\ pStage = "node" /\ pList = <<>>
    /\ pRes = NoResource /\ pPuts = <<>> /\ pInitial = Nil
    /\ proc = "up" /\ spc = "init" /\ sret = Nil /\ dret = Nil /\ pret = Nil
    /\ errChan = Nil /\ healed = FALSE
    /\ call = NoCall /\ ret = NotCalled

\* the containers the Docker daemon lists
RunContainers == {<<Container("c1", LabelsMany), Container("c2", LabelsOther)>>}

Init == InitOn(RunConfigs, Clusters, RunContainers)

envVars == <<config, containers, dStream, dEvent, cluster, call, ret, proc, spc, sret, errChan, healed>>
\* envVars without proc
envRest == <<config, containers, dStream, dEvent, cluster, call, ret, spc, sret, errChan, healed>>
returns == <<dret, pret>>
dockerVars == <<dpc, dQueue>>
proxmoxVars == <<ppc, pNodes, pStage, pList, pRes, pPuts, pInitial>>

(* ---- main and DNSAutomator.Start ---- *)

\* a switch whose default case falls back to the Docker reconciler
Start_DefaultDocker ==
    /\ proc = "up" /\ spc = "init"
    /\ spc' = "docker" /\ dpc' = "start"
    /\ UNCHANGED <<config, containers, dStream, dEvent, cluster, call, ret, proc, errChan, healed,
                   returns, store, origin, dQueue, ppc, sret,
                   pNodes, pStage, pList, pRes, pPuts, pInitial>>

\* go automator.Start(): the switch on the agent mode.  ctx is
\* context.Background(), which is never cancelled, so Start stays in its
\* case from here on unless the reconciler it called returns
Start ==
    /\ proc = "up" /\ spc = "init"
    /\ IF config.AgentMode = "docker"
       THEN spc' = "docker" /\ dpc' = "start" /\ UNCHANGED <<ppc, sret>>
       ELSE IF config.AgentMode = "proxmox"
       THEN spc' = "proxmox" /\ ppc' = "start" /\ UNCHANGED <<dpc, sret>>
       ELSE IF config.AgentMode = "hybrid"
       THEN spc' = "hybrid" /\ dpc' = "start" /\ ppc' = "start" /\ UNCHANGED sret
       ELSE spc' = "returned" /\ sret' = "invalid agent mode" /\ UNCHANGED <<dpc, ppc>>
    /\ UNCHANGED <<config, containers, dStream, dEvent, cluster, call, ret, proc, errChan, healed,
                   returns, store, origin, dQueue, pNodes, pStage, pList, pRes, pPuts, pInitial>>

\* a hybrid case that returns once both reconcilers have
StartReturns_HybridToo ==
    /\ proc = "up"
    /\ spc = "hybrid" /\ dpc = "done" /\ ppc = "done" /\ sret' = dret
    /\ spc' = "returned"
    /\ UNCHANGED <<config, containers, dStream, dEvent, cluster, call, ret, proc, errChan, healed,
                   returns, dockerVars, proxmoxVars, store, origin>>

\* return da.dockerClient.StartEventMonitoring(ctx) and
\* return da.proxmoxClient.StartMonitoring(ctx): Start returns what the
\* reconciler of a single mode returned; the hybrid case only waits for ctx
StartReturns ==
    /\ proc = "up"
    /\ \/ spc = "docker" /\ dpc = "done" /\ sret' = dret
       \/ spc = "proxmox" /\ ppc = "done" /\ sret' = pret
    /\ spc' = "returned"
    /\ UNCHANGED <<config, containers, dStream, dEvent, cluster, call, ret, proc, errChan, healed,
                   returns, dockerVars, proxmoxVars, store, origin>>

\* main: log.Fatal on the error Start returned ends the process
MainFatal ==
    /\ proc = "up" /\ spc = "returned" /\ sret # Nil
    /\ proc' = "fatal"
    /\ UNCHANGED <<config, containers, dStream, dEvent, cluster, call, ret, spc, sret, errChan, healed,
                   returns, dockerVars, proxmoxVars, store, origin>>

\* main: sig := <-sigChan, then main returns and the process ends
Signal ==
    /\ proc = "up"
    /\ proc' = "signalled"
    /\ UNCHANGED <<config, containers, dStream, dEvent, cluster, call, ret, spc, sret, errChan, healed,
                   returns, dockerVars, proxmoxVars, store, origin>>

(* ---- DockerClient.StartEventMonitoring ---- *)

\* a StartEventMonitoring that returns the error of a failed sync
DockerSync_ReturnsError ==
    /\ proc = "up"
    /\ dpc = "start"
    /\ dpc' = "done" /\ dret' = "failed to list containers"
    /\ UNCHANGED <<envVars, pret, proxmoxVars, store, origin, dQueue>>

\* SyncExistingContainers up to its loops: ContainerList, then the hosts of
\* every container; a failure is only a warning
DockerSync ==
    /\ proc = "up"
    /\ dpc = "start"
    /\ \E listErr \in Failures, orders \in OrdersOf(containers) :
         dQueue' = IF listErr THEN <<>> ELSE SyncHosts(containers, orders, 1)
    /\ dpc' = "sync"
    /\ UNCHANGED <<envVars, returns, proxmoxVars, store, origin>>

\* one CreateDNSRecord(host) of the loop over hosts (sync or event): the Put
\* succeeds or fails, and the loop goes on either way
DockerPut ==
    /\ proc = "up"
    /\ dpc \in {"sync", "handle"} /\ dQueue # <<>>
    /\ \E putOk \in PutResults :
         LET r == CreateDNSRecord(config, store, Head(dQueue), putOk)
             p == DNSRecordPut(config, Head(dQueue))
         IN  /\ store' = r.store
             /\ origin' = IF r.err THEN origin
                          ELSE Put(origin, p.key, [by |-> "docker", tags |-> <<>>,
                                                host |-> Head(dQueue)])
    /\ dQueue' = Tail(dQueue)
    /\ UNCHANGED <<envVars, returns, proxmoxVars, dpc>>

\* the sync is over: client.Events, then the select loop
DockerSubscribe ==
    /\ proc = "up"
    /\ dpc = "sync" /\ dQueue = <<>>
    /\ dpc' = "watch"
    /\ UNCHANGED <<envVars, returns, proxmoxVars, store, origin, dQueue>>

\* ContainerInspect(id): the container, or an error when there is none
InspectFinds(id) == \E i \in 1..Len(containers) : containers[i].ID = id

InspectLabels(id) ==
    containers[CHOOSE i \in 1..Len(containers) : containers[i].ID = id].Labels

\* case event := <-eventChan: handleContainerEvent(event) up to its loop
DockerEvent ==
    /\ proc = "up"
    /\ dpc = "watch"
    /\ \E event \in Events, inspectErr \in Failures :
         IF event.Type # "container" THEN UNCHANGED dockerVars
         ELSE IF event.Action # "start" THEN UNCHANGED dockerVars
         ELSE IF inspectErr \/ ~InspectFinds(event.ID) THEN UNCHANGED dockerVars
         ELSE \E order \in RangeOrders(InspectLabels(event.ID)) :
                LET hosts == extractHostsFromLabels(InspectLabels(event.ID), order)
                IN  IF Len(hosts) = 0 THEN UNCHANGED dockerVars
                    ELSE dQueue' = hosts /\ dpc' = "handle"
    /\ UNCHANGED <<envVars, returns, proxmoxVars, store, origin>>

\* a reconciler that runs its sync again after every handled event
DockerHandled_Resync ==
    /\ proc = "up"
    /\ dpc = "handle" /\ dQueue = <<>>
    /\ dpc' = "start"
    /\ UNCHANGED <<envVars, returns, proxmoxVars, store, origin, dQueue>>

\* handleContainerEvent returns: back to the select
DockerHandled ==
    /\ proc = "up"
    /\ dpc = "handle" /\ dQueue = <<>>
    /\ dpc' = "watch"
    /\ UNCHANGED <<envVars, returns, proxmoxVars, store, origin, dQueue>>

\* the connection to the Docker daemon breaks: the stream delivers an error
StreamBreaks ==
    /\ proc = "up"
    /\ dpc \in {"watch", "inspect", "handle"} /\ errChan = Nil /\ ~healed
    /\ errChan' = "unexpected EOF"
    /\ UNCHANGED <<config, containers, dStream, dEvent, cluster, call, ret, proc, spc, sret, healed,
                   returns, dockerVars, proxmoxVars, store, origin>>

\* a stream error that also ends the Proxmox reconciler
DockerStreamError_CancelsAll ==
    /\ proc = "up"
    /\ dpc = "watch" /\ errChan # Nil
    /\ dpc' = "done" /\ dret' = errChan
    /\ ppc' = "done" /\ pret' = "context canceled"
    /\ UNCHANGED <<envVars, store, origin, dQueue, pNodes, pStage, pList, pRes, pPuts, pInitial>>

\* case err := <-errChan with err != nil: StartEventMonitoring returns err
DockerStreamError ==
    /\ proc = "up"
    /\ dpc = "watch" /\ errChan # Nil
    /\ dpc' = "done"
    /\ dret' = errChan
    /\ UNCHANGED <<envVars, pret, proxmoxVars, store, origin, dQueue>>

(* ---- ProxmoxClient.StartMonitoring ---- *)

\* NewProxmoxClient: without PROXMOX_API_URL the ProxmoxClient has no client
NewProxmoxClient(cfg) ==
    [client |-> IF cfg.ProxmoxAPIURL = "" THEN Nil ELSE "client", config |-> cfg]

\* a StartMonitoring that goes on to its connection test without a client
ProxmoxBlocks_Skips ==
    /\ proc = "up"
    /\ ppc = "start" /\ NewProxmoxClient(config).client = Nil
    /\ ppc' = "ready"
    /\ UNCHANGED <<envVars, dret, pret, dockerVars, store, origin,
                   pNodes, pStage, pList, pRes, pPuts, pInitial>>

\* if pc.client == nil: StartMonitoring logs and waits on ctx.Done(); the
\* context of Start is never cancelled, so it waits for as long as the
\* process runs
ProxmoxBlocks ==
    /\ proc = "up"
    /\ ppc = "start" /\ NewProxmoxClient(config).client = Nil
    /\ ppc' = "blocked"
    /\ UNCHANGED <<envVars, dret, pret, dockerVars, store, origin,
                   pNodes, pStage, pList, pRes, pPuts, pInitial>>

\* testConnection: only a failing Version call makes StartMonitoring return
ProxmoxTestConnection ==
    /\ proc = "up"
    /\ ppc = "start" /\ NewProxmoxClient(config).client # Nil
    /\ \E versionErr \in Failures :
         IF versionErr
         THEN ppc' = "done" /\ pret' = "failed to connect to Proxmox"
         ELSE ppc' = "ready" /\ UNCHANGED pret
    /\ UNCHANGED <<envVars, dret, dockerVars, store, origin,
                   pNodes, pStage, pList, pRes, pPuts, pInitial>>

\* a StartMonitoring that returns the error of its initial sync instead of
\* logging it
ProxmoxSyncBegin_InitialFatal ==
    /\ proc = "up"
    /\ ppc \in {"ready", "wait"}
    /\ \E nodesErr \in Failures :
         /\ IF nodesErr
            THEN /\ pNodes' = <<>>
                 /\ IF ppc = "ready"
                    THEN ppc' = "done" /\ pret' = "failed to get nodes"
                    ELSE ppc' = "wait" /\ UNCHANGED pret
            ELSE ppc' = "cycle" /\ pNodes' = cluster /\ UNCHANGED pret
         /\ pInitial' = IF ppc # "ready" THEN pInitial
                        ELSE IF nodesErr THEN "failed to get nodes" ELSE "ok"
    /\ pStage' = "node" /\ pList' = <<>> /\ pRes' = NoResource /\ pPuts' = <<>>
    /\ UNCHANGED <<envVars, dret, dockerVars, store, origin>>

\* what becomes of the process when a pass is over: the initial pass is
\* followed by time.NewTicker(pc.config.ProxmoxPollInterval), which panics on
\* an interval that is not positive; a later pass has its ticker, so the
\* interval is positive and the loop waits for the next tick
AfterPass(cfg) == IF NewTicker(cfg.ProxmoxPollInterval) = "panic" THEN "panic" ELSE "up"

\* syncAllResources begins: client.Nodes.  From "ready" it is the initial sync,
\* whose error StartMonitoring only logs ("Initial sync failed") before it
\* creates the ticker; from "wait" it is the pass of one tick, which takes a
\* ticker.  pInitial keeps what the initial call returned.
ProxmoxSyncBegin ==
    /\ proc = "up"
    /\ ppc \in {"ready", "wait"}
    /\ ppc = "wait" => NewTicker(config.ProxmoxPollInterval) = "ticking"
    /\ \E nodesErr \in Failures :
         /\ IF nodesErr
            THEN ppc' = "wait" /\ pNodes' = <<>> /\ proc' = AfterPass(config)
            ELSE ppc' = "cycle" /\ pNodes' = cluster /\ UNCHANGED proc
         /\ pInitial' = IF ppc # "ready" THEN pInitial
                        ELSE IF nodesErr THEN "failed to get nodes" ELSE "ok"
    /\ pStage' = "node" /\ pList' = <<>> /\ pRes' = NoResource /\ pPuts' = <<>>
    /\ UNCHANGED <<envRest, returns, dockerVars, store, origin>>

\* the head of the loop over nodes: status test, client.Node, VirtualMachines
ProxmoxNode ==
    /\ proc = "up"
    /\ ppc = "cycle" /\ pStage = "node" /\ pNodes # <<>>
    /\ \E nodeErr \in Failures, vmsErr \in Failures :
         IF Head(pNodes).Status # "online" \/ nodeErr
         THEN pNodes' = Tail(pNodes) /\ UNCHANGED <<pStage, pList>>
         ELSE /\ pStage' = "vms"
              /\ pList' = IF vmsErr THEN <<>> ELSE Head(pNodes).vms
              /\ UNCHANGED pNodes
    /\ UNCHANGED <<envVars, returns, dockerVars, store, origin, ppc, pRes, pPuts, pInitial>>

\* one turn of the loop over vms, up to the call of CreateDNSRecords
ProxmoxVM ==
    /\ proc = "up"
    /\ ppc = "cycle" /\ pStage = "vms" /\ pList # <<>> /\ pPuts = <<>>
    /\ IF Head(pList).Status # "running"
       THEN UNCHANGED <<pRes, pPuts>>
       ELSE \E live \in LiveAnswers("qemu") :
              /\ pRes' = Head(pList)
              /\ pPuts' = processVM(config, Head(pList), live).puts
    /\ pList' = Tail(pList)
    /\ UNCHANGED <<envVars, returns, dockerVars, store, origin, ppc, pNodes, pStage, pInitial>>

\* the loop over vms is over: node.Containers
ProxmoxContainers ==
    /\ proc = "up"
    /\ ppc = "cycle" /\ pStage = "vms" /\ pList = <<>> /\ pPuts = <<>>
    /\ \E ctsErr \in Failures :
         pList' = IF ctsErr THEN <<>> ELSE Head(pNodes).cts
    /\ pStage' = "cts"
    /\ UNCHANGED <<envVars, returns, dockerVars, store, origin, ppc, pNodes, pRes, pPuts, pInitial>>

\* one turn of the loop over containers, up to the call of CreateDNSRecords
ProxmoxCT ==
    /\ proc = "up"
    /\ ppc = "cycle" /\ pStage = "cts" /\ pList # <<>> /\ pPuts = <<>>
    /\ IF Head(pList).Status # "running"
       THEN UNCHANGED <<pRes, pPuts>>
       ELSE \E live \in LiveAnswers("lxc") :
              /\ pRes' = Head(pList)
              /\ pPuts' = processContainer(config, Head(pList), live).puts
    /\ pList' = Tail(pList)
    /\ UNCHANGED <<envVars, returns, dockerVars, store, origin, ppc, pNodes, pStage, pInitial>>

\* one Put of the loop of CreateDNSRecords: a failure ends the call
ProxmoxPut ==
    /\ proc = "up"
    /\ ppc = "cycle" /\ pPuts # <<>>
    /\ \E putOk \in PutResults :
         IF putOk
         THEN /\ store' = Put(store, Head(pPuts).key, Head(pPuts).value)
              /\ origin' = Put(origin, Head(pPuts).key,
                               [by |-> "proxmox", tags |-> pRes.Tags,
                                host |-> generateHostname(config, pRes.Name)])
              /\ pPuts' = Tail(pPuts)
         ELSE /\ pPuts' = <<>>
              /\ UNCHANGED <<store, origin>>
    /\ UNCHANGED <<envVars, returns, dockerVars, ppc, pNodes, pStage, pList, pRes, pInitial>>

\* the loop over containers is over: next node
ProxmoxNodeDone ==
    /\ proc = "up"
    /\ ppc = "cycle" /\ pStage = "cts" /\ pList = <<>> /\ pPuts = <<>>
    /\ pNodes' = Tail(pNodes) /\ pStage' = "node"
    /\ UNCHANGED <<envVars, returns, dockerVars, store, origin, ppc, pList, pRes, pPuts, pInitial>>

\* syncAllResources returns nil: after the initial pass time.NewTicker, then
\* (and after every later pass) wait for the ticker
ProxmoxSyncDone ==
    /\ proc = "up"
    /\ ppc = "cycle" /\ pStage = "node" /\ pNodes = <<>>
    /\ ppc' = "wait"
    /\ proc' = AfterPass(config)
    /\ UNCHANGED <<envRest, returns, dockerVars, store, origin,
                   pNodes, pStage, pList, pRes, pPuts, pInitial>>

Next ==
    \/ Start
    \/ StartReturns
    \/ MainFatal
    \/ Signal
    \/ StreamBreaks
    \/ DockerSync
    \/ DockerPut
    \/ DockerSubscribe
    \/ DockerEvent
    \/ DockerHandled
    \/ DockerStreamError
    \/ ProxmoxTestConnection
    \/ ProxmoxSyncBegin
    \/ ProxmoxNode
    \/ ProxmoxVM
    \/ ProxmoxContainers
    \/ ProxmoxCT
    \/ ProxmoxPut
    \/ ProxmoxNodeDone
    \/ ProxmoxSyncDone

Spec == Init /\ [][Next]_vars

\* a step of the Docker reconciler itself (not the arrival of an event)
DockerStep ==
    DockerSync \/ DockerPut \/ DockerSubscribe \/ DockerHandled \/ DockerStreamError

\* a step of the Proxmox reconciler, the tick of its ticker included
ProxmoxStep ==
    \/ ProxmoxTestConnection \/ ProxmoxSyncBegin \/ ProxmoxNode \/ ProxmoxVM
    \/ ProxmoxContainers \/ ProxmoxCT \/ ProxmoxPut \/ ProxmoxNodeDone
    \/ ProxmoxSyncDone

(* ---- the runs in which the platforms stop failing ---- *)

\* from here on etcd, the Docker daemon and Proxmox answer every call
Heal ==
    /\ proc = "up" /\ ~healed
    /\ healed' = TRUE
    /\ UNCHANGED <<config, containers, dStream, dEvent, cluster, call, ret, proc, spc, sret, errChan,
                   returns, dockerVars, proxmoxVars, store, origin>>

\* one container with one rule
LabelsOne == ("traefik.http.routers.web.rule" :> HostRule(<<"a", ".", "b">>))

LiveContainers == {<<Container("c1", LabelsOne)>>}

\* one online node with a tagged vm and a plain container
LiveClusters ==
    {<<NodeOf("pve1", "online",
              <<Resource(<<"w">>, "running",
                         <<ValueTag("dnsherpa-ip", <<"192.0.2.5">>)>>)>>,
              <<Resource(<<"c">>, "running", <<>>)>>)>>}

LiveConfigs ==
    {RunConfig(mode, "traefik.lab", "first") : mode \in {"docker", "proxmox", "hybrid"}}

InitLive == InitOn(LiveConfigs, LiveClusters, LiveContainers)

NextLive == Next \/ Heal

\* every goroutine of the process is scheduled: Start, the two reconcilers
\* (the ticker of Proxmox included), the return of Start and main's log.Fatal
Fairness ==
    /\ WF_vars(Start)
    /\ WF_vars(DockerStep)
    /\ WF_vars(ProxmoxStep)
    /\ WF_vars(StartReturns)
    /\ WF_vars(MainFatal)

SpecLive == InitLive /\ [][NextLive]_vars /\ Fairness

(* ---- containers that start while the Docker reconciler runs ---- *)

\* the containers that may start later: one with a router rule, one without
LateContainers == {Container("c5", LabelsSolo), Container("c6", LabelsOther)}

\* the Docker daemon starts a container, whatever the reconciler is doing.
\* Once client.Events has been called (dpc "watch" or "handle") the stream
\* (dpc "inspect" included) holds its start event until the select receives it.  Before ContainerList
\* was called (dpc "off" or "start") the list will hold the container.  After
\* the list was answered and before client.Events was called (dpc = "sync")
\* the list does not hold it and no subscription exists: events.ListOptions{}
\* asks for no event of the past.
ContainerStarts ==
    /\ proc = "up"
    /\ \E c \in LateContainers :
         /\ \A i \in 1..Len(containers) : containers[i].ID # c.ID
         /\ containers' = Append(containers, c)
         /\ dStream' = IF dpc \in {"watch", "inspect", "handle"}
                       THEN Append(dStream, [Type |-> "container", Action |-> "start",
                                             ID |-> c.ID])
                       ELSE dStream
    /\ UNCHANGED <<config, dEvent, cluster, call, ret, proc, spc, sret, errChan, healed,
                   returns, dockerVars, proxmoxVars, store, origin>>

\* case event := <-eventChan on an event the stream holds, and
\* handleContainerEvent(event) up to its call of ContainerInspect: an event
\* that is not the start of a container is dropped at once
DockerReceive ==
    /\ proc = "up"
    /\ dpc = "watch" /\ dStream # <<>>
    /\ dStream' = Tail(dStream)
    /\ IF Head(dStream).Type # "container" \/ Head(dStream).Action # "start"
       THEN UNCHANGED <<dEvent, dockerVars>>
       ELSE dEvent' = Head(dStream) /\ dpc' = "inspect" /\ UNCHANGED dQueue
    /\ UNCHANGED <<config, containers, cluster, call, ret, proc, spc, sret, errChan,
                   healed, returns, proxmoxVars, store, origin>>

\* ContainerInspect answers: on an error handleContainerEvent returns; else
\* the hosts of the labels, and the loop over them when there are any
DockerInspected ==
    /\ proc = "up"
    /\ dpc = "inspect"
    /\ dEvent' = NoEvent
    /\ \E inspectErr \in Failures :
         IF inspectErr \/ ~InspectFinds(dEvent.ID)
         THEN dpc' = "watch" /\ UNCHANGED dQueue
         ELSE \E order \in RangeOrders(InspectLabels(dEvent.ID)) :
                LET hosts == extractHostsFromLabels(InspectLabels(dEvent.ID), order)
                IN  IF Len(hosts) = 0 THEN dpc' = "watch" /\ UNCHANGED dQueue
                    ELSE dQueue' = hosts /\ dpc' = "handle"
    /\ UNCHANGED <<config, containers, dStream, cluster, call, ret, proc, spc, sret,
                   errChan, healed, returns, proxmoxVars, store, origin>>

\* docker mode, a daemon, an etcd and a stream that never fail
InitGap ==
    /\ config \in {RunConfig("docker", t, "first") : t \in Targets}
    /\ containers \in {<<>>, <<Container("c1", LabelsOne)>>} /\ dStream = <<>> /\ dEvent = NoEvent
    /\ cluster = <<>>
    /\ store = EmptyStore
    /\ origin = EmptyStore
    /\ dpc = "off" /\ dQueue = <<>>
    /\ ppc = "off" /\ pNodes = <<>> /\ pStage = "node" /\ pList = <<>>
    /\ pRes = NoResource /\ pPuts = <<>> /\ pInitial = Nil
    /\ proc = "up" /\ spc = "init" /\ sret = Nil /\ dret = Nil /\ pret = Nil
    /\ errChan = Nil /\ healed = TRUE
    /\ call = NoCall /\ ret = NotCalled

NextGap ==
    \/ Start
    \/ DockerSync
    \/ DockerPut
    \/ DockerSubscribe
    \/ DockerEvent
    \/ DockerReceive
    \/ DockerInspected
    \/ DockerHandled
    \/ ContainerStarts
    \/ Signal

\* Start and the Docker reconciler are scheduled; events and container starts
\* happen when the daemon has them
FairnessGap ==
    /\ WF_vars(Start)
    /\ WF_vars(DockerSync \/ DockerPut \/ DockerSubscribe \/ DockerInspected
               \/ DockerHandled)
    /\ SF_vars(DockerReceive)

SpecGap == InitGap /\ [][NextGap]_vars /\ FairnessGap

(* ---- the runs with and without PROXMOX_API_URL ---- *)

\* every agent mode, with the URL of the Proxmox API set and left empty
UrlConfigs ==
    {[RunConfig(mode, "traefik.lab", "first")
        EXCEPT !.ProxmoxAPIURL = url, !.ProxmoxPollInterval = ProxmoxPollInterval(env)] :
        mode \in {"docker", "proxmox", "hybrid"}, url \in {"", "https://pve:8006"},
        env \in {<<>>, <<"0", "s">>, <<"x">>}}

InitUrl == InitOn(UrlConfigs, LiveClusters, LiveContainers)

NextUrl == Next \/ ProxmoxBlocks

SpecUrl == InitUrl /\ [][NextUrl]_vars

(* ---- the runs over hosts with one address and with several ---- *)

\* one online node: a VM whose tag names a single address, a VM whose tag
\* names one address of each family, and a plain container
KeyClusters ==
    {<<NodeOf("pve1", "online",
              <<Resource(<<"w">>, "running",
                         <<ValueTag("dnsherpa-ip", <<"192.0.2.5">>)>>),
                Resource(<<"v">>, "running",
                         <<ValueTag("dnsherpa-ip", <<"192.0.2.5", "2001:db8::5">>)>>)>>,
              <<Resource(<<"c">>, "running", <<>>)>>)>>}

\* every agent mode, and both strategies and an address as target in hybrid mode
KeyConfigs ==
    LiveConfigs \cup {RunConfig("hybrid", "192.0.2.5", "all")}

InitKeys == InitOn(KeyConfigs, KeyClusters, LiveContainers)

SpecKeys == InitKeys /\ [][Next]_vars

(***************************************************************************)
(* Properties                                                              *)
(***************************************************************************)
\* the address families, as the text of the address decides them
ValidV4(s) == s \in V4Literals \cup MappedLiterals
ValidV6(s) == s \in V6Literals
ValidIP(s) == ValidV4(s) \/ ValidV6(s)

RECURSIVE Pick(_, _, _)
\* the elements of s at the positions in keep, from position i on, in order
Pick(s, keep, i) ==
    IF i > Len(s) THEN <<>>
    ELSE (IF i \in keep THEN <<s[i]>> ELSE <<>>) \o Pick(s, keep, i + 1)

Mirror(s) == [i \in 1..Len(s) |-> s[Len(s) + 1 - i]]

\* C4: under strategy first, applyMultiIPv4Strategy returns the first valid IPv4
\* address and every valid IPv6 address of its input, in their original order,
\* and nothing else.
C4_StrategyFirst ==
    (call.op = "applyMultiIPv4Strategy" /\ ret.done
        /\ call.cfg.ProxmoxMultiIPv4 = "first")
    => LET ips  == call.ips
           keep == {i \in 1..Len(ips) :
                       \/ ValidV6(ips[i])
                       \/ ValidV4(ips[i]) /\ \A j \in 1..(i-1) : ~ValidV4(ips[j])}
       IN  ret.ips = Pick(ips, keep, 1)

\* C4 witness: a call under first whose input holds two IPv4 addresses, an
\* IPv6 address and a string that is no address, and that returned two addresses.
C4_Witness ==
    /\ call.op = "applyMultiIPv4Strategy" /\ ret.done
    /\ call.cfg.ProxmoxMultiIPv4 = "first"
    /\ \E i, j \in 1..Len(call.ips) :
          i < j /\ ValidV4(call.ips[i]) /\ ValidV4(call.ips[j])
    /\ \E i \in 1..Len(call.ips) : ValidV6(call.ips[i])
    /\ \E i \in 1..Len(call.ips) : ~ValidIP(call.ips[i])
    /\ Len(ret.ips) = 2

\* C5 (as claimed): under strategy all, applyMultiIPv4Strategy returns exactly
\* the input strings that parse as IP literals, in order; the others are dropped.
C5_StrategyAllDropsInvalid ==
    (call.op = "applyMultiIPv4Strategy" /\ ret.done
        /\ call.cfg.ProxmoxMultiIPv4 = "all")
    => ret.ips = Pick(call.ips, {i \in 1..Len(call.ips) : ValidIP(call.ips[i])}, 1)

\* C7: the hostname is the name unchanged when the name holds a dot or the
\* domain is empty, and name + "." + domain otherwise.
C7_HostnameSynthesis ==
    (call.op = "generateHostname" /\ ret.done)
    => LET n      == call.vmName
           d      == call.cfg.Domain
           dotted == \E i \in 1..Len(n) : n[i] = "."
       IN  ret.hostname = IF dotted THEN n
                          ELSE IF d # <<>> THEN n \o <<".">> \o d
                          ELSE n

\* C7 witness: a short name completed with a non-empty domain.
C7_Witness ==
    /\ call.op = "generateHostname" /\ ret.done
    /\ call.vmName = <<"a", "b">>
    /\ call.cfg.Domain = <<"h", ".", "l">>
    /\ ret.hostname = <<"a", "b", ".", "h", ".", "l">>

\* C8: the key is prefix + "/" + the labels of the hostname in reverse order
\* joined by "/"; reversing the key's segments and joining them with dots gives
\* the hostname back; CreateDNSRecords computes the same base path.
C8_KeyReversal ==
    (call.op = "key" /\ ret.done)
    => LET p      == call.cfg.EtcdPrefix
           h      == call.hostname
           labels == Split(h, ".")
           key    == ret.key
           rest   == SubSeq(key, Len(p) + 2, Len(key))
           segs   == Split(rest, "/")
       IN  /\ Len(key) >= Len(p) + 1
           /\ SubSeq(key, 1, Len(p) + 1) = p \o <<"/">>
           /\ Len(segs) = Len(labels)
           /\ \A i \in 1..Len(segs) : segs[i] = labels[Len(labels) + 1 - i]
           /\ Join(Mirror(segs), ".") = h
           /\ ret.basePath = key

\* C8 witness: a three-label hostname and its key.
C8_Witness ==
    /\ call.op = "key" /\ ret.done
    /\ call.hostname = <<"a", ".", "a", ".", "b">>
    /\ call.cfg.EtcdPrefix = <<"/", "s">>
    /\ ret.key = <<"/", "s", "/", "b", "/", "a", "/", "a">>

\* C9: when every Put of a CreateDNSRecords call succeeds, the i-th valid IPv4
\* address of the list is stored at <base>/a<i> and the j-th valid IPv6 address
\* at <base>/aaaa<j>, numbered from 1 per family in list order, the Puts follow
\* the list order, and the strings that are no IP literal write nothing.
C9_KeyNumbering ==
    (call.op = "CreateDNSRecords" /\ ret.done /\ call.failAt = 0)
    => LET ips   == call.ips
           base  == BasePath(call.cfg, call.hostname)
           pos4  == {p \in 1..Len(ips) : ValidV4(ips[p])}
           pos6  == {p \in 1..Len(ips) : ValidV6(ips[p])}
           rank(S, p) == Cardinality({q \in S : q <= p})
           key(p) == IF p \in pos4
                     THEN base \o <<"/", "a">> \o Itoa(rank(pos4, p))
                     ELSE base \o <<"/", "a", "a", "a", "a">> \o Itoa(rank(pos6, p))
       IN  /\ ~ret.err
           /\ \A p \in pos4 \cup pos6 :
                 /\ key(p) \in DOMAIN ret.store
                 /\ ret.store[key(p)] = [host |-> ips[p], ttl |-> 300]
                 /\ ret.puts[rank(pos4 \cup pos6, p)].key = key(p)
           /\ Cardinality(DOMAIN ret.store) = Cardinality(pos4 \cup pos6)
           /\ Len(ret.puts) = Cardinality(pos4 \cup pos6)

\* C9 witness: a call on [IPv4, no address, IPv4, IPv6] that stored a record
\* at <base>/a2 and one at <base>/aaaa1.
C9_Witness ==
    /\ call.op = "CreateDNSRecords" /\ ret.done /\ call.failAt = 0
    /\ call.hostname = <<"a", ".", "b">>
    /\ call.ips = <<"10.0.0.1", "bogus", "::ffff:10.0.0.3", "2001:db8::1">>
    /\ <<"/", "s", "/", "b", "/", "a", "/", "a", "2">> \in DOMAIN ret.store
    /\ <<"/", "s", "/", "b", "/", "a", "/", "a", "a", "a", "a", "1">> \in DOMAIN ret.store

Loopbacks == {"127.0.0.1", "127.0.0.2", "::1"}
LinkLocals == {"fe80::1"}

IsIPTag(t) == t.colon /\ TrimSpace(t.key) = "dnsherpa-ip"

\* C3 (as claimed): when the tags hold a dnsherpa-ip entry, getResourceIPs
\* returns exactly the entries of its value that are IP literals, in order, and
\* no error, whatever the live data, the interface tag and the configured
\* interface are.
C3_ExplicitIPOverride ==
    (call.op = "getResourceIPs" /\ ret.done
        /\ \E i \in 1..Len(call.tags) : IsIPTag(call.tags[i]))
    => LET first == CHOOSE i \in 1..Len(call.tags) :
                       /\ IsIPTag(call.tags[i])
                       /\ \A j \in 1..(i-1) : ~IsIPTag(call.tags[j])
           csv   == [i \in 1..Len(call.tags[first].val) |->
                        TrimSpace(call.tags[first].val[i])]
       IN  /\ ~ret.err
           /\ ret.ips = Pick(csv, {i \in 1..Len(csv) : ValidIP(csv[i])}, 1)

\* the same with the empty value set aside (not a claim: the other values obey)
NonEmptyIPTagObeys ==
    (call.op = "getResourceIPs" /\ ret.done
        /\ \E i \in 1..Len(call.tags) : IsIPTag(call.tags[i]))
    => LET first == CHOOSE i \in 1..Len(call.tags) :
                       /\ IsIPTag(call.tags[i])
                       /\ \A j \in 1..(i-1) : ~IsIPTag(call.tags[j])
           csv   == [i \in 1..Len(call.tags[first].val) |->
                        TrimSpace(call.tags[first].val[i])]
       IN  call.tags[first].val # EmptyStr
           => /\ ~ret.err
              /\ ret.ips = Pick(csv, {i \in 1..Len(csv) : ValidIP(csv[i])}, 1)

\* C6 (as claimed): resolving from the live interfaces (no dnsherpa-ip entry),
\* for qemu and lxc and under both strategies, never returns a loopback or a
\* link-local address.
C6_NoLoopbackNoLinkLocal ==
    (call.op = "getResourceIPs" /\ ret.done
        /\ \A i \in 1..Len(call.tags) : ~IsIPTag(call.tags[i]))
    => \A i \in 1..Len(ret.ips) : ret.ips[i] \notin Loopbacks \cup LinkLocals

\* C1: a second run of SyncExistingContainers with the same containers, every
\* write of both runs succeeding, leaves the store as the first run left it,
\* whichever order the labels were visited in.
C1_SyncIdempotent ==
    (call.op = "SyncExistingContainers" /\ ret.done /\ ret.runs = 2 /\ ret.ok)
    => ret.store = ret.first

\* C1 witness: two successful runs that visited the labels in different orders
\* and left at least two records beside the one that was there before.
C1_Witness ==
    /\ call.op = "SyncExistingContainers" /\ ret.done /\ ret.runs = 2 /\ ret.ok
    /\ ret.reordered
    /\ call.store = StaleStore
    /\ Cardinality(DOMAIN ret.store) >= 3
    /\ ret.store = ret.first

(***************************************************************************)
(* Properties of the Docker side, checked on single calls (SpecFn)         *)
(***************************************************************************)
\* positions i < o < c < p of value v spell one Host clause: the word and its
\* parenthesis, blanks, a backtick, a non-empty text without backtick, a
\* backtick, blanks, the closing parenthesis
IsHostClause(v, i, o, c, p) ==
    /\ i < o /\ o + 1 < c /\ c < p /\ p <= Len(v)
    /\ v[i] = "Host(" /\ v[o] = Backtick /\ v[c] = Backtick /\ v[p] = ")"
    /\ \A k \in (i + 1)..(o - 1) : v[k] = " "
    /\ \A k \in (o + 1)..(c - 1) : v[k] # Backtick
    /\ \A k \in (c + 1)..(p - 1) : v[k] = " "

ClauseStarts(v) ==
    {i \in 1..Len(v) : \E o, c, p \in 1..Len(v) : IsHostClause(v, i, o, c, p)}

\* the quoted argument of the clause that starts at i
ClauseHost(v, i) ==
    LET oc == CHOOSE oc \in (1..Len(v)) \X (1..Len(v)) :
                 \E p \in 1..Len(v) : IsHostClause(v, i, oc[1], oc[2], p)
    IN  SubSeq(v, oc[1] + 1, oc[2] - 1)

\* the arguments of the clauses of v, in the order they occur
HostsOf(v) ==
    Pick([i \in 1..Len(v) |-> IF i \in ClauseStarts(v) THEN ClauseHost(v, i) ELSE <<>>],
         ClauseStarts(v), 1)

\* the label keys of the model that contain both required texts
RuleKeys == {"traefik.http.routers.web.rule", "traefik.http.routers.api.rule"}

RECURSIVE HostsAlong(_, _, _)
\* the arguments found in the labels with a rule key, label after label
HostsAlong(labels, order, i) ==
    IF i > Len(order) THEN <<>>
    ELSE (IF order[i] \in RuleKeys THEN HostsOf(labels[order[i]]) ELSE <<>>)
         \o HostsAlong(labels, order, i + 1)

\* C11: extractHostsFromLabels returns exactly the backtick-quoted arguments of
\* the Host clauses in the values of the labels whose key contains both
\* "traefik.http.routers." and ".rule": within a value in the order they occur,
\* duplicates kept; other keys and values without a clause contribute nothing.
C11_LabelExtraction ==
    (call.op = "extractHostsFromLabels" /\ ret.done)
    => ret.hosts = HostsAlong(call.labels, call.order, 1)

\* C11 witness: a rule that names a host twice among three clauses, visited
\* before a rule with malformed clauses and one clause with padding.
C11_Witness ==
    /\ call.op = "extractHostsFromLabels" /\ ret.done
    /\ call.labels = LabelsTwice
    /\ call.order[1] = "traefik.http.routers.web.rule"
    /\ ret.hosts = <<<<"a">>, <<"b">>, <<"a">>, <<"c", ".", "b">>>>

\* C12: handleContainerEvent on an event whose type is not container or whose
\* action is not start calls neither ContainerInspect nor CreateDNSRecord and
\* leaves the store as it was; a container start event is inspected, and
\* nothing is written without an inspect.
C12_EventFilter ==
    (call.op = "handleContainerEvent" /\ ret.done)
    => /\ (call.event.Type # "container" \/ call.event.Action # "start")
          => (~ret.inspected /\ ret.created = 0 /\ ret.store = call.store)
       /\ (call.event.Type = "container" /\ call.event.Action = "start")
          => ret.inspected
       /\ ret.created > 0 => ret.inspected

\* C12 witness: a die event of a container whose labels name hosts, with an
\* inspect that would succeed, is not inspected and leaves a populated store
\* untouched.
C12_Witness ==
    /\ call.op = "handleContainerEvent" /\ ret.done
    /\ call.event.Type = "container" /\ call.event.Action = "die"
    /\ call.inspect = [err |-> FALSE, Labels |-> LabelsMany]
    /\ call.store = StaleStore /\ call.failed = {}
    /\ ret.store = StaleStore /\ ~ret.inspected

\* C20 (as claimed): the key CreateDNSRecord writes for a Docker hostname is
\* never one of the keys CreateDNSRecords writes for a Proxmox hostname and
\* its addresses.
C20_DisjointNamespaces ==
    (call.op = "namespaces" /\ ret.done)
    => ret.docker \cap ret.proxmox = {}

(***************************************************************************)
(* Properties of the running reconcilers (Spec)                            *)
(***************************************************************************)
IsDigits(seg) ==
    /\ Len(seg) >= 1
    /\ \A i \in 1..Len(seg) : \E d \in 1..Len(DigitChars) : seg[i] = DigitChars[d]

\* the last segment of a key
Suffix(key) == LET parts == Split(key, "/") IN parts[Len(parts)]

NamesA(seg) == Len(seg) >= 2 /\ seg[1] = "a" /\ IsDigits(SubSeq(seg, 2, Len(seg)))

NamesAAAA(seg) ==
    /\ Len(seg) >= 5
    /\ SubSeq(seg, 1, 4) = <<"a", "a", "a", "a">>
    /\ IsDigits(SubSeq(seg, 5, Len(seg)))

UnderPrefix(key, prefix) ==
    /\ Len(key) > Len(prefix) + 1
    /\ SubSeq(key, 1, Len(prefix) + 1) = prefix \o <<"/">>

SkipTagged(res) == HasTag(res.Tags, "dnsherpa-skip")

C10_RecordValueInvariant ==
    \A k \in DOMAIN store :
        /\ UnderPrefix(k, config.EtcdPrefix)
        /\ DOMAIN store[k] = {"host", "ttl"}
        /\ store[k].ttl = 300
        /\ k \in DOMAIN origin
        /\ origin[k].by = "docker" => store[k].host = config.DNSTarget
        /\ origin[k].by = "proxmox"
           => \/ NamesA(Suffix(k)) /\ ValidV4(store[k].host)
              \/ NamesAAAA(Suffix(k)) /\ ValidV6(store[k].host)

\* C10 witness: the store holds a record of the Docker reconciler next to an
\* A and an AAAA record of the Proxmox reconciler.
C10_Witness ==
    /\ \E k \in DOMAIN store : origin[k].by = "docker"
    /\ \E k \in DOMAIN store : origin[k].by = "proxmox" /\ NamesA(Suffix(k))
    /\ \E k \in DOMAIN store : origin[k].by = "proxmox" /\ NamesAAAA(Suffix(k))

(***************************************************************************)
(* Properties of the orchestrator and of the two loops (Spec)              *)
(***************************************************************************)
\* C13: in hybrid mode each reconciler returns only its own failure (the
\* stream error for Docker, the failed connection test for Proxmox), the step
\* on which one returns leaves the other, Start and the process as they were,
\* and Start does not return; in a run where the process stays up and the
\* platforms stop failing, Proxmox keeps writing records after Docker has
\* returned, and Docker keeps coming back to its watch after Proxmox has
\* returned.  In docker mode Start returns the stream error, and the process
\* ends.
C13_HybridIsolation ==
    /\ [](config.AgentMode = "hybrid"
          => /\ dpc = "done" => (dret = errChan /\ dret # Nil)
             /\ ppc = "done" => pret = "failed to connect to Proxmox"
             /\ spc \in {"init", "hybrid"} /\ proc # "fatal")
    /\ [][config.AgentMode = "hybrid"
          => /\ (dpc' = "done" /\ dpc # "done")
                   => UNCHANGED <<proxmoxVars, pret, proc, spc, sret>>
             /\ (ppc' = "done" /\ ppc # "done")
                   => UNCHANGED <<dockerVars, dret, proc, spc, sret>>]_vars
    /\ (/\ config.AgentMode = "hybrid"
        /\ [](proc = "up" /\ ppc # "done")
        /\ <>(dpc = "done")
        /\ <>healed)
           => []<><<ProxmoxPut>>_vars
    /\ (/\ config.AgentMode = "hybrid"
        /\ [](proc = "up" /\ dpc # "done")
        /\ <>(ppc = "done"))
           => []<>(dpc = "watch")
    /\ [](config.AgentMode = "docker"
          => /\ spc = "returned" => (sret = dret /\ sret = errChan /\ sret # Nil)
             /\ proc = "fatal" => spc = "returned")
    /\ (config.AgentMode = "docker" /\ <>(dpc = "done")) => <>(proc # "up")

\* C13 witness: hybrid mode, the Docker reconciler has returned on a stream
\* error, and the Proxmox reconciler is in a pass with a Put about to be issued.
C13_Witness ==
    /\ config.AgentMode = "hybrid" /\ proc = "up"
    /\ dpc = "done" /\ dret = "unexpected EOF"
    /\ ppc = "cycle" /\ pPuts # <<>>
    /\ ENABLED ProxmoxPut

\* C14: in hybrid mode Start never returns, whatever the reconcilers do.
C14_HybridBlocks ==
    config.AgentMode = "hybrid" => (spc \in {"init", "hybrid"} /\ sret = Nil)

\* C14 witness: hybrid mode, both reconcilers have returned, the process is up
\* and Start is still waiting.
C14_Witness ==
    /\ config.AgentMode = "hybrid" /\ proc = "up"
    /\ dpc = "done" /\ ppc = "done"
    /\ spc = "hybrid"

\* C15: with an agent mode other than docker, proxmox and hybrid, Start
\* returns the invalid-mode error, no reconciler is started, nothing is
\* listed or subscribed to, and the store stays empty.
C15_InvalidMode ==
    config.AgentMode \notin {"docker", "proxmox", "hybrid"}
    => /\ spc = "init" \/ (spc = "returned" /\ sret = "invalid agent mode")
       /\ dpc = "off" /\ ppc = "off"
       /\ dQueue = <<>> /\ pNodes = <<>> /\ pPuts = <<>>
       /\ store = EmptyStore

\* C15 witness: the agent mode is swarm, Start has returned its error and main
\* has ended the process.
C15_Witness ==
    /\ config.AgentMode = "swarm"
    /\ spc = "returned" /\ sret = "invalid agent mode"
    /\ proc = "fatal"

\* C16 (as claimed): once the shutdown signal has been taken, every loop that
\* was started eventually returns.
C16_CancellationPropagates ==
    (proc = "signalled") ~> (dpc \in {"off", "done"} /\ ppc \in {"off", "done"})

\* C17: StartEventMonitoring returns only from its select loop, on an error
\* the stream delivered, and returns that very error; no step of the sync, of
\* an inspect or of a write makes it return.
C17_WatchTermination ==
    /\ [](dpc = "done" => (dret # Nil /\ dret = errChan))
    /\ [](dpc # "done" => dret = Nil)
    /\ [][(dpc' = "done" /\ dpc # "done")
          => (dpc = "watch" /\ errChan # Nil /\ dret' = errChan
              /\ UNCHANGED <<store, dQueue>>)]_vars

\* C17 witness: docker mode, the reconciler watches although its sync wrote
\* nothing (the listing or every write failed), and returns nothing.
C17_Witness ==
    /\ config.AgentMode = "docker" /\ proc = "up"
    /\ dpc = "watch" /\ store = EmptyStore /\ dret = Nil

\* C18 (as claimed): StartMonitoring never returns (the context is never
\* cancelled), whatever fails.
C18_ProxmoxLoopPersists ==
    ppc # "done"

\* the hosts the Docker reconciler discovers: those of every listed container
DockerHosts ==
    UNION {UNION {LET hosts == extractHostsFromLabels(containers[i].Labels, o)
                  IN  {hosts[j] : j \in 1..Len(hosts)} :
                  o \in RangeOrders(containers[i].Labels)} :
           i \in 1..Len(containers)}

\* the keys the Docker reconciler is to keep in the store
DockerKeys ==
    IF config.AgentMode \in {"docker", "hybrid"}
    THEN {DNSRecordKey(config, h) : h \in DockerHosts}
    ELSE {}

\* the keys one poll of a healthy Proxmox cluster writes
PutKeys(puts) == {puts[i].key : i \in 1..Len(puts)}

ProxmoxKeys ==
    IF config.AgentMode \in {"proxmox", "hybrid"}
    THEN UNION {UNION {PutKeys(processVM(config, cluster[n].vms[i], GoodAnswer("qemu")).puts) :
                         i \in {i2 \in 1..Len(cluster[n].vms) :
                                  cluster[n].vms[i2].Status = "running"}}
                \cup UNION {PutKeys(processContainer(config, cluster[n].cts[i], GoodAnswer("lxc")).puts) :
                         i \in {i2 \in 1..Len(cluster[n].cts) :
                                  cluster[n].cts[i2].Status = "running"}} :
                n \in {n2 \in 1..Len(cluster) : cluster[n2].Status = "online"}}
    ELSE {}

\* C19 (as claimed): if the process keeps running with both reconcilers alive
\* and the platforms eventually stop failing while the discovery sources stay
\* as they are, then eventually every discovered host of either reconciler
\* has its record in the store.
C19_RetryByReassertion ==
    ([](proc = "up" /\ dpc # "done" /\ ppc # "done") /\ <>healed)
        => <>((DockerKeys \cup ProxmoxKeys) \subseteq DOMAIN store)

(***************************************************************************)
(* Properties of the two writers beside each other (Spec)                  *)
(***************************************************************************)
\* every VM and container the cluster describes
ClusterResources ==
    UNION {{cluster[n].vms[i] : i \in 1..Len(cluster[n].vms)}
           \cup {cluster[n].cts[i] : i \in 1..Len(cluster[n].cts)} :
           n \in 1..Len(cluster)}

\* the hostnames both sources discover
CommonHosts ==
    DockerHosts \cap {generateHostname(config, r.Name) : r \in ClusterResources}

\* the keys of the store last written on behalf of hostname h
KeysOfHost(h) == {k \in DOMAIN store : origin[k].host = h}

\* C21 (as claimed): in hybrid mode, for a hostname both sources discover,
\* the Proxmox reconciler writes the very key the Docker reconciler writes.
C21_SameHostnameRace ==
    config.AgentMode = "hybrid"
    => \A h \in CommonHosts : \A k \in KeysOfHost(h) :
          origin[k].by = "proxmox" => k = DNSRecordKey(config, h)

\* C21 (amended): in hybrid mode, for a hostname both sources discover, the
\* Docker reconciler writes the hostname at its base path and the Proxmox
\* reconciler writes it only at keys a<N> and aaaa<N> one segment below that
\* path, so the two never write the hostname at the same key; each key holds
\* the value of the reconciler that wrote it last: the DNS target at the
\* base path, an address below it.
C21_SameHostDistinctKeys ==
    config.AgentMode = "hybrid"
    => \A h \in CommonHosts : \A k \in KeysOfHost(h) :
          /\ origin[k].by = "docker"
             => /\ k = DNSRecordKey(config, h)
                /\ store[k] = DNSRecordPut(config, h).value
          /\ origin[k].by = "proxmox"
             => /\ UnderPrefix(k, DNSRecordKey(config, h))
                /\ k = DNSRecordKey(config, h) \o <<"/">> \o Suffix(k)
                /\ NamesA(Suffix(k)) \/ NamesAAAA(Suffix(k))
                /\ ValidIP(store[k].host)

\* C21 witness: hybrid mode, host a.b is a router rule of a container and the
\* name of a running VM, and the store holds the record of each reconciler.
C21_Witness ==
    /\ config.AgentMode = "hybrid"
    /\ <<"a", ".", "b">> \in CommonHosts
    /\ \E k \in KeysOfHost(<<"a", ".", "b">>) : origin[k].by = "docker"
    /\ \E k \in KeysOfHost(<<"a", ".", "b">>) : origin[k].by = "proxmox"

(***************************************************************************)
(* Properties of the resolver (SpecFn)                                     *)
(***************************************************************************)
\* the trimmed entries of the value of the first dnsherpa-ip entry of tags
IPTagEntries(tags) ==
    LET first == CHOOSE i \in 1..Len(tags) :
                    /\ IsIPTag(tags[i])
                    /\ \A j \in 1..(i-1) : ~IsIPTag(tags[j])
    IN  [i \in 1..Len(tags[first].val) |-> TrimSpace(tags[first].val[i])]

\* C22 (as claimed): when the tags hold a dnsherpa-ip entry, whatever its
\* value (entries all invalid, or empty), getResourceIPs returns no error and
\* only valid entries of that value, and the answer is the same whatever the
\* platform would report for the resource: no live query, no fallback.
C22_ExplicitIPShortCircuit ==
    (call.op = "getResourceIPs" /\ ret.done
        /\ \E i \in 1..Len(call.tags) : IsIPTag(call.tags[i]))
    => /\ ~ret.err
       /\ \A i \in 1..Len(ret.ips) :
             /\ ValidIP(ret.ips[i])
             /\ \E j \in 1..Len(IPTagEntries(call.tags)) :
                   IPTagEntries(call.tags)[j] = ret.ips[i]
       /\ \A live \in Answers(call.resource.Type) :
             getResourceIPs(call.cfg, call.resource, call.tags, live)
                = [ips |-> ret.ips, err |-> ret.err]

\* C23 (as claimed): under strategy first, whichever rule of the chain
\* produced them, the addresses getResourceIPs returns are what the strategy
\* leaves of them: at most one IPv4 address, so at most one A record is put.
C23_StrategyOnEveryRule ==
    (call.op = "getResourceIPs" /\ ret.done /\ ~ret.err
        /\ call.cfg.ProxmoxMultiIPv4 = "first")
    => /\ ret.ips = applyMultiIPv4Strategy(call.cfg, ret.ips)
       /\ Cardinality({i \in 1..Len(ret.ips) : ValidV4(ret.ips[i])}) <= 1
       /\ LET puts == DNSRecordsPuts(call.cfg, <<"a">>, ret.ips)
          IN  Cardinality({i \in 1..Len(puts) : puts[i].recordType = "A"}) <= 1

IsIfaceTag(t) == t.colon /\ TrimSpace(t.key) = "dnsherpa-interface"

\* the value of the first dnsherpa-interface entry of tags
FirstIfaceValue(tags) ==
    tags[CHOOSE i \in 1..Len(tags) :
            /\ IsIfaceTag(tags[i])
            /\ \A j \in 1..(i-1) : ~IsIfaceTag(tags[j])].val

\* the addresses the platform reports on the interfaces called name
AddrsOn(type, ifaces, name) ==
    UNION {IF type = "qemu"
           THEN {ifaces[i].IPAddresses[j] : j \in 1..Len(ifaces[i].IPAddresses)}
           ELSE {ifaces[i].Inet[1], ifaces[i].Inet6[1]} :
           i \in {i2 \in 1..Len(ifaces) : ifaces[i2].Name = name}}

\* the call resolved from the interfaces called name, and from no other:
\* every address returned is reported on such an interface, and under
\* strategy all every address reported there that is neither loopback nor
\* link-local is returned
ResolvedFrom(name) ==
    /\ \A i \in 1..Len(ret.ips) :
          ret.ips[i] \in AddrsOn(call.resource.Type, call.live.ifaces, name)
    /\ call.cfg.ProxmoxMultiIPv4 = "all"
       => \A a \in AddrsOn(call.resource.Type, call.live.ifaces, name)
                     \ (Loopbacks \cup LinkLocals \cup {""}) :
             \E i \in 1..Len(ret.ips) : ret.ips[i] = a

\* C24 (as claimed): without a dnsherpa-ip entry, a successful getResourceIPs
\* resolves from the interfaces named by the dnsherpa-interface entry if the
\* tags hold one, from those named by the configured interface otherwise.
C24_InterfaceTagIfPresent ==
    (call.op = "getResourceIPs" /\ ret.done /\ ~ret.err
        /\ \A i \in 1..Len(call.tags) : ~IsIPTag(call.tags[i]))
    => ResolvedFrom(IF \E i \in 1..Len(call.tags) : IsIfaceTag(call.tags[i])
                    THEN FirstIfaceValue(call.tags)
                    ELSE call.cfg.ProxmoxInterface)

\* C24 (amended): without a dnsherpa-ip entry, a successful getResourceIPs
\* resolves from the interfaces named by the first dnsherpa-interface entry
\* when the tags hold one and its value is not empty, and from those named by
\* the configured interface otherwise; no address of another interface is
\* returned.
C24_InterfaceSelection ==
    (call.op = "getResourceIPs" /\ ret.done /\ ~ret.err
        /\ \A i \in 1..Len(call.tags) : ~IsIPTag(call.tags[i]))
    => ResolvedFrom(IF /\ \E i \in 1..Len(call.tags) : IsIfaceTag(call.tags[i])
                       /\ FirstIfaceValue(call.tags) # EmptyStr
                    THEN FirstIfaceValue(call.tags)
                    ELSE call.cfg.ProxmoxInterface)

\* C24 witness: eth0 is configured, the tag names eth1, the agent reports
\* addresses on lo, eth0 and eth1, and the address of eth1 alone is returned.
C24_Witness ==
    /\ call.op = "getResourceIPs" /\ ret.done /\ ~ret.err
    /\ call.resource.Type = "qemu"
    /\ call.cfg.ProxmoxInterface = <<"eth0">>
    /\ call.tags = <<ValueTag("dnsherpa-interface", <<"eth1">>)>>
    /\ AddrsOn("qemu", call.live.ifaces, <<"eth0">>) # {}
    /\ ret.ips = <<"192.0.2.5">>

\* C25: when the interface rule applies and the live interface query fails
\* (AgentGetNetworkIFaces for a VM, Interfaces for a container), the resolver
\* returns no address and no error (the fallback is a stub), and processVM /
\* processContainer returns nil without calling CreateDNSRecords: no Put, the
\* store is as it was.
C25_FallbackStub ==
    /\ (call.op = "getResourceIPs" /\ ret.done
          /\ getTagValue(call.tags, "dnsherpa-ip") = EmptyStr
          /\ call.live.ifErr /\ ~call.live.nodeErr /\ ~call.live.getErr)
       => (ret.ips = <<>> /\ ~ret.err)
    /\ (call.op = "process" /\ ret.done
          /\ ~HasTag(call.resource.Tags, "dnsherpa-skip")
          /\ getTagValue(call.resource.Tags, "dnsherpa-ip") = EmptyStr
          /\ call.live.ifErr /\ ~call.live.nodeErr /\ ~call.live.getErr)
       => (ret.puts = <<>> /\ ~ret.err /\ ~ret.called /\ ret.store = call.store)

\* C25 witness: a container with an interface tag whose Interfaces call
\* failed has been processed.
C25_Witness ==
    /\ call.op = "process" /\ ret.done
    /\ call.type = "lxc"
    /\ call.resource.Tags = <<ValueTag("dnsherpa-interface", <<"eth1">>)>>
    /\ call.live.ifErr
    /\ ret.puts = <<>> /\ ~ret.err

(***************************************************************************)
(* Properties of one pass of syncAllResources (SpecFn)                     *)
(***************************************************************************)
Visited == {ret.visited[i] : i \in 1..Len(ret.visited)}

\* the listed resource a visit <<node index, type, list index>> stands for
EntryOf(v) ==
    IF v[2] = "qemu" THEN call.nodes[v[1]].vms[v[3]] ELSE call.nodes[v[1]].cts[v[3]]

\* the Puts of the resource of a visit that succeed
PutsDone(v) ==
    LET e    == EntryOf(v)
        r    == IF v[2] = "qemu" THEN processVM(call.cfg, e.res, e.live)
                ELSE processContainer(call.cfg, e.res, e.live)
        done == IF e.failAt \in 1..Len(r.puts) THEN e.failAt - 1 ELSE Len(r.puts)
    IN  SubSeq(r.puts, 1, done)

\* the keys of the store under the base path of the hostname of a resource
KeysUnder(st, res) ==
    {k \in DOMAIN st :
        UnderPrefix(k, BasePath(call.cfg, generateHostname(call.cfg, res.Name)))}

\* every listed resource, as a visit
Listed ==
    UNION {{<<n, "qemu", i>> : i \in 1..Len(call.nodes[n].vms)}
           \cup {<<n, "lxc", i>> : i \in 1..Len(call.nodes[n].cts)} :
           n \in 1..Len(call.nodes)}

\* C26: in a pass whose node listing succeeded, whatever fails for one item
\* (client.Node, the listing of VMs or of containers, the resolution of a
\* resource, one of its Puts), syncAllResources returns nil, and every
\* running resource of every online node that was fetched and whose list was
\* obtained is processed, the containers of a node whose VM listing failed
\* included; what each processed resource put before its failure is in the
\* store.
C26_FailureIsolation ==
    (call.op = "syncAllResources" /\ ret.done /\ ~call.nodesErr)
    => /\ ~ret.err
       /\ \A v \in Listed :
             LET n == call.nodes[v[1]]
             IN  (/\ n.Status = "online" /\ ~n.nodeErr
                  /\ ~(IF v[2] = "qemu" THEN n.vmsErr ELSE n.ctsErr)
                  /\ EntryOf(v).res.Status = "running")
                 => v \in Visited
       /\ \A v \in Visited :
             \A j \in 1..Len(PutsDone(v)) :
                /\ PutsDone(v)[j].key \in DOMAIN ret.store
                /\ ret.store[PutsDone(v)[j].key] = PutsDone(v)[j].value
       /\ \A k \in DOMAIN call.store :
             k \in DOMAIN ret.store /\ ret.store[k] = call.store[k]

\* C26 witness: the VM listing of the first node failed, a Put is not
\* concerned, and the container of that node and the VM of the second node
\* have their records in the store.
C26_Witness ==
    /\ call.op = "syncAllResources" /\ ret.done
    /\ call.nodes[1].Status = "online" /\ ~call.nodes[1].nodeErr
    /\ call.nodes[1].vmsErr /\ ~call.nodes[1].ctsErr
    /\ KeysUnder(ret.store, call.nodes[1].vms[2].res) = {}
    /\ KeysUnder(ret.store, call.nodes[1].cts[1].res) # {}
    /\ KeysUnder(ret.store, call.nodes[2].vms[1].res) # {}

\* C27: in a pass, processVM / processContainer is called for no resource of
\* a node that is not online and for no resource that is not running, and
\* such a resource gets no key in the store.
C27_StatusFilter ==
    (call.op = "syncAllResources" /\ ret.done)
    => \A v \in Listed :
          (call.nodes[v[1]].Status # "online" \/ EntryOf(v).res.Status # "running")
          => /\ v \notin Visited
             /\ KeysUnder(ret.store, EntryOf(v).res) = {}

\* C27 witness: on an online node a stopped VM is listed before a running
\* one; the running one alone has its records in the store.
C27_Witness ==
    /\ call.op = "syncAllResources" /\ ret.done
    /\ call.nodes[1].Status = "online"
    /\ call.nodes[1].vms[1].res.Status = "stopped"
    /\ KeysUnder(ret.store, call.nodes[1].vms[1].res) = {}
    /\ KeysUnder(ret.store, call.nodes[1].vms[2].res) # {}

\* C28: StartMonitoring makes its initial syncAllResources call before it waits
\* for the first tick (no wait, and no pass of a tick, before that call has
\* returned), and a pass that was begun is left only after its last node; an
\* initial call that returned "failed to get nodes" does not make
\* StartMonitoring return, and in a run where the process stays up the passes
\* of the ticker keep beginning after it, and keep listing the nodes once
\* Proxmox answers.
C28_InitialPassOrdering ==
    /\ [](/\ ppc \in {"off", "start", "ready"} => pInitial = Nil
          /\ ppc \in {"wait", "cycle"} => pInitial # Nil
          /\ pInitial # Nil => ppc # "done")
    /\ [][/\ (ppc = "ready" /\ ppc' # "ready")
                => (ppc' \in {"wait", "cycle"} /\ pInitial' # Nil)
          /\ (ppc = "cycle" /\ ppc' # "cycle")
                => (ppc' = "wait" /\ pNodes = <<>>)
          /\ (ppc = "wait" /\ pInitial = Nil) => FALSE]_vars
    /\ ([](proc = "up") /\ <>(pInitial = "failed to get nodes"))
           => []<><<ProxmoxSyncBegin>>_vars
    /\ ([](proc = "up") /\ <>(pInitial = "failed to get nodes") /\ <>healed)
           => []<>(ppc = "cycle")

\* C28 witness: the initial sync failed on the node listing, and a later pass
\* of the ticker has listed the nodes and has a Put to issue.
C28_Witness ==
    /\ pInitial = "failed to get nodes"
    /\ ppc = "cycle" /\ pPuts # <<>>
    /\ pret = Nil

\* the hosts of a list at the positions whose Put does not fail
NotFailed(hosts, failed) == {hosts[i] : i \in (1..Len(hosts)) \ failed}

\* store st with the record of every host of hs written
AfterWrites(cfg, st, hs) ==
    LET ks == {DNSRecordPut(cfg, h).key : h \in hs}
    IN  [k \in DOMAIN st \cup ks |->
            IF k \in ks
            THEN DNSRecordPut(cfg, CHOOSE h \in hs : DNSRecordPut(cfg, h).key = k).value
            ELSE st[k]]

\* C29: whichever Puts fail, SyncExistingContainers leaves the store with the
\* record of every host, of every listed container, whose Put did not fail,
\* and otherwise as it was; handleContainerEvent on a container start event
\* does the same for the hosts of the inspected container and calls
\* CreateDNSRecord for each of them, and when the inspect fails it calls
\* CreateDNSRecord for none and leaves the store as it was.
C29_DockerHostIsolation ==
    /\ (call.op = "SyncExistingContainers/failures" /\ ret.done)
       => ret.store = AfterWrites(call.cfg, call.store,
                                  NotFailed(ret.hosts, call.failed))
    /\ (/\ call.op = "handleContainerEvent" /\ ret.done
        /\ call.event.Type = "container" /\ call.event.Action = "start")
       => IF call.inspect.err
          THEN ret.store = call.store /\ ret.created = 0 /\ ret.inspected
          ELSE LET hosts == extractHostsFromLabels(call.inspect.Labels, call.order)
               IN  /\ ret.created = Len(hosts)
                   /\ ret.store = AfterWrites(call.cfg, call.store,
                                              NotFailed(hosts, call.failed))

\* C29 witness: a sync over two containers with four distinct hosts in which
\* only the Put of the second host fails: the first and third hosts (same
\* container) and the fourth (the next container) are written, the second is
\* not.
C29_Witness ==
    /\ call.op = "SyncExistingContainers/failures" /\ ret.done
    /\ call.failed = {2} /\ Len(ret.hosts) = 4
    /\ Len(call.containers) = 2 /\ call.containers[1].ID = "c1"
    /\ \A i \in {1, 3, 4} : DNSRecordPut(call.cfg, ret.hosts[i]).key \in DOMAIN ret.store
    /\ DNSRecordPut(call.cfg, ret.hosts[2]).key \notin DOMAIN ret.store

\* C30: StartEventMonitoring runs SyncExistingContainers once: the sync begins
\* only as the first step of the reconciler and is never begun again; the
\* event subscription is opened only from the sync, when its loops are over,
\* and later the watch is re-entered only from a handled event; no step of
\* the sync makes the reconciler return; and as long as the process stays up
\* a started reconciler reaches its watch, whether the listing failed or not.
C30_SyncBeforeWatch ==
    /\ [][/\ (dpc' = "sync" /\ dpc # "sync") => dpc = "start"
          /\ (dpc' = "start" /\ dpc # "start") => dpc = "off"
          /\ dpc \in {"start", "sync"} => dpc' \in {"start", "sync", "watch"}
          /\ (dpc' = "watch" /\ dpc # "watch")
                => \/ dpc = "sync" /\ dQueue = <<>>
                   \/ dpc = "handle" /\ dQueue = <<>>]_vars
    /\ [](/\ dpc \in {"off", "start"} => dQueue = <<>>
          /\ dpc \in {"start", "sync"} => dret = Nil)
    /\ (dpc = "start") ~> (dpc = "watch" \/ proc # "up")

\* C30 witness: the reconciler watches, the container it should have synced
\* names a host, and no record was written by Docker: the listing (or every
\* write) of the sync failed, while Proxmox has written its own.
C30_Witness ==
    /\ config.AgentMode = "hybrid" /\ proc = "up"
    /\ dpc = "watch" /\ dret = Nil
    /\ DockerHosts # {}
    /\ store # EmptyStore
    /\ \A k \in DOMAIN origin : origin[k].by # "docker"

\* C31 (as claimed): two calls of extractHostsFromLabels on the same label map
\* return the same sequence of hostnames.
C31_ExtractionDeterminism ==
    (call.op = "extractHostsFromLabels/twice" /\ ret.done)
    => ret.first = ret.second

\* what holds instead: on a map with one matching router rule the two results
\* are equal, and on any map they hold the same hosts the same number of times
C31_SameHostsAnyOrder ==
    (call.op = "extractHostsFromLabels/twice" /\ ret.done)
    => /\ Len(ret.first) = Len(ret.second)
       /\ \A h \in {ret.first[i] : i \in 1..Len(ret.first)} :
            Cardinality({i \in 1..Len(ret.first) : ret.first[i] = h})
            = Cardinality({i \in 1..Len(ret.second) : ret.second[i] = h})
       /\ Cardinality({k \in DOMAIN call.labels :
                          ContainsRouters(k) /\ ContainsRule(k)}) <= 1
          => ret.first = ret.second

\* the keys of the store last written by one reconciler
KeysBy(who) == {k \in DOMAIN store : origin[k].by = who}

\* C32: every key the Docker reconciler wrote is the unsuffixed key of its
\* host, the prefix followed by the reversed labels, and holds the record of
\* the DNS target; every key the Proxmox reconciler wrote is the unsuffixed key
\* of its host followed by one more segment a<N> or aaaa<N>, never the
\* unsuffixed key itself, and holds an address; the first address of a family
\* goes to a1 or aaaa1.
C32_KeyShapeBySource ==
    /\ \A k \in KeysBy("docker") :
          /\ k = config.EtcdPrefix \o <<"/">>
                 \o Join(Mirror(Split(origin[k].host, ".")), "/")
          /\ store[k] = DNSRecordPut(config, origin[k].host).value
    /\ \A k \in KeysBy("proxmox") :
          LET base == config.EtcdPrefix \o <<"/">>
                      \o Join(Mirror(Split(origin[k].host, ".")), "/")
          IN  /\ k # base
              /\ k = base \o <<"/">> \o Suffix(k)
              /\ \/ NamesA(Suffix(k)) /\ store[k].host \in V4Literals \cup MappedLiterals
                 \/ NamesAAAA(Suffix(k)) /\ store[k].host \in V6Literals
              /\ Suffix(k) = <<"a", "2">> => (base \o <<"/", "a", "1">>) \in DOMAIN store

\* C32 witness: a pass is over; the VM whose dnsherpa-ip tag names the single
\* address 192.0.2.5 has exactly one record, at a1, and nothing at its
\* unsuffixed key; the VM whose tag names two addresses has aaaa1; Docker has
\* a record at an unsuffixed key.
C32_Witness ==
    /\ ppc = "wait"
    /\ KeysBy("docker") # {}
    /\ \E k \in KeysBy("proxmox") :
          LET base == DNSRecordKey(config, origin[k].host)
          IN  /\ origin[k].tags = <<ValueTag("dnsherpa-ip", <<"192.0.2.5">>)>>
              /\ k = base \o <<"/", "a", "1">>
              /\ store[k].host = "192.0.2.5"
              /\ base \notin DOMAIN store
              /\ {j \in DOMAIN store : UnderPrefix(j, base)} = {k}
    /\ \E k \in KeysBy("proxmox") :
          /\ origin[k].tags = <<ValueTag("dnsherpa-ip", <<"192.0.2.5", "2001:db8::5">>)>>
          /\ Suffix(k) = <<"a", "a", "a", "a", "1">>

\* the Puts a poll of the cluster issues when the platform answers: those of
\* every running VM and container of every online node
ProxmoxPutSet ==
    IF config.AgentMode \in {"proxmox", "hybrid"}
    THEN UNION {LET n == cluster[ni]
                    vmPuts(i) == processVM(config, n.vms[i], GoodAnswer("qemu")).puts
                    ctPuts(i) == processContainer(config, n.cts[i], GoodAnswer("lxc")).puts
                IN  UNION {{vmPuts(i)[j] : j \in 1..Len(vmPuts(i))} :
                            i \in {i2 \in 1..Len(n.vms) : n.vms[i2].Status = "running"}}
                    \cup
                    UNION {{ctPuts(i)[j] : j \in 1..Len(ctPuts(i))} :
                            i \in {i2 \in 1..Len(n.cts) : n.cts[i2].Status = "running"}} :
                ni \in {n2 \in 1..Len(cluster) : cluster[n2].Status = "online"}}
    ELSE {}

\* the two reconcilers write disjoint sets of keys, and Proxmox has one value
\* for each of its keys
DisjointWriters ==
    /\ config.AgentMode = "hybrid"
    /\ DockerKeys \cap {p.key : p \in ProxmoxPutSet} = {}
    /\ \A p, q \in ProxmoxPutSet : p.key = q.key => p.value = q.value

\* the store in which every write of both reconcilers has been made
BothStores ==
    [k \in DockerKeys \cup {p.key : p \in ProxmoxPutSet} |->
        IF k \in DockerKeys THEN Marshal(TargetRecord(config))
        ELSE (CHOOSE p \in ProxmoxPutSet : p.key = k).value]

\* C33: in hybrid mode with disjoint key sets, whatever the interleaving of the
\* steps of the two reconcilers, every key of the store holds the value its
\* own reconciler writes there, so that once every write of both has been
\* made the store is the one store BothStores; and no step of one reconciler
\* changes a variable of the other (its position, its queues, its result):
\* beside the process state they share the store only.
C33_InterleavingIndependence ==
    /\ [](DisjointWriters
          => /\ \A k \in DOMAIN store :
                   /\ k \in DOMAIN BothStores /\ store[k] = BothStores[k]
                   /\ origin[k].by = IF k \in DockerKeys THEN "docker" ELSE "proxmox"
             /\ DOMAIN BothStores \subseteq DOMAIN store => store = BothStores)
    /\ [][/\ (dpc # "off" /\ <<dpc, dQueue, dret>>' # <<dpc, dQueue, dret>>)
                => UNCHANGED <<proxmoxVars, pret>>
          /\ (ppc # "off" /\ <<proxmoxVars, pret>>' # <<proxmoxVars, pret>>)
                => UNCHANGED <<dpc, dQueue, dret>>]_vars

\* C33 witness: hybrid mode, disjoint key sets with keys of both reconcilers,
\* the Docker sync and a Proxmox pass are over, and the store holds every
\* record of both.
C33_Witness ==
    /\ DisjointWriters
    /\ DockerKeys # {} /\ ProxmoxPutSet # {}
    /\ dpc = "watch" /\ ppc = "wait"
    /\ store = BothStores

\* the key of the N-th IPv4 record of the VM a of the two polls
KeyOfA(cfg, n) ==
    cfg.EtcdPrefix \o <<"/">> \o Join(Mirror(Split(<<"a", ".">> \o cfg.Domain, ".")), "/")
    \o <<"/", "a">> \o n

\* C34: over two polls of syncAllResources, or two runs of
\* SyncExistingContainers, between which a host stops being discovered, no key
\* leaves the store: the keys present before the first run are present after
\* it, those present after the first are present after the second, and a
\* record nobody writes again keeps its value.  When the VM is stopped, tagged
\* dnsherpa-skip, no longer listed, or its node offline, and when containers
\* are gone, the second run leaves the store exactly as the first left it;
\* when the VM goes from two IPv4 addresses to one, only its first record
\* changes and the second stays.
C34_WriteOnlyStore ==
    (call.op \in {"syncAllResources/later", "SyncExistingContainers/later"} /\ ret.done)
    => /\ DOMAIN call.store \subseteq DOMAIN ret.first
       /\ DOMAIN ret.first \subseteq DOMAIN ret.store
       /\ \A k \in DOMAIN call.store : ret.store[k] = call.store[k]
       /\ call.op = "SyncExistingContainers/later" => ret.store = ret.first
       /\ call.op = "syncAllResources/later"
          => IF call.change # "one address" THEN ret.store = ret.first
             ELSE /\ \A k \in DOMAIN ret.first :
                        k # KeyOfA(call.cfg, <<"1">>) => ret.store[k] = ret.first[k]
                  /\ ret.store[KeyOfA(call.cfg, <<"1">>)].host = "10.0.0.2"

\* C34 witness: under strategy all the VM had 10.0.0.1 and 10.0.0.2 at a1 and
\* a2; after the poll that found only 10.0.0.2, a1 holds the new address and
\* a2 still holds its record.
C34_Witness ==
    /\ call.op = "syncAllResources/later" /\ ret.done
    /\ call.change = "one address" /\ call.cfg.ProxmoxMultiIPv4 = "all"
    /\ ret.first[KeyOfA(call.cfg, <<"1">>)].host = "10.0.0.1"
    /\ ret.first[KeyOfA(call.cfg, <<"2">>)].host = "10.0.0.2"
    /\ ret.store[KeyOfA(call.cfg, <<"1">>)].host = "10.0.0.2"
    /\ ret.store[KeyOfA(call.cfg, <<"2">>)].host = "10.0.0.2"

\* the keys of the hosts of the containers that run
RunningKeys ==
    {DNSRecordKey(config, h) : h \in DockerHosts}

\* the keys of the hosts of one container
HostKeysOf(c) ==
    UNION {LET hosts == extractHostsFromLabels(c.Labels, o)
           IN  {DNSRecordKey(config, hosts[j]) : j \in 1..Len(hosts)} :
           o \in RangeOrders(c.Labels)}

\* the container is running
Runs(c) == \E i \in 1..Len(containers) : containers[i] = c

\* the start event of the container is in the stream or being handled, or its hosts are being
\* written
Announced(c) ==
    \/ \E i \in 1..Len(dStream) : dStream[i].ID = c.ID
    \/ dpc = "inspect" /\ dEvent.ID = c.ID
    \/ dpc = "handle" /\ \E j \in 1..Len(dQueue) :
                            DNSRecordKey(config, dQueue[j]) \in HostKeysOf(c)

\* C35 (as claimed): with a daemon and a store that never fail, the record of
\* every host of a container that runs at some point after the reconciler has
\* started is eventually written, whenever the container started, for as
\* long as the process runs.
C35_DockerCoverage ==
    (dpc # "off") ~> (RunningKeys \subseteq DOMAIN store \/ proc # "up")

\* what holds instead: the hosts of a container that runs before
\* ContainerList is called, and those of a container whose start event the
\* stream holds, are written
C35_ListedOrWatched ==
    /\ ((dpc = "start" /\ Runs(Container("c1", LabelsOne)))
        \/ Announced(Container("c1", LabelsOne)))
          ~> (HostKeysOf(Container("c1", LabelsOne)) \subseteq DOMAIN store
              \/ proc # "up")
    /\ ((dpc = "start" /\ Runs(Container("c5", LabelsSolo)))
        \/ Announced(Container("c5", LabelsSolo)))
          ~> (HostKeysOf(Container("c5", LabelsSolo)) \subseteq DOMAIN store
              \/ proc # "up")

\* the addresses of a list that net.ParseIP accepts, in order
ValidAddrs(ips) == SelectSeq(ips, LAMBDA ip : ParseIP(ip) # Nil)

\* the values a store holds
ValuesOf(st) == {st[k] : k \in DOMAIN st}

\* the visits of a pass whose resource met a failing Put
FailedVisits ==
    {v \in Visited :
        EntryOf(v).failAt \in 1..Len(ProcessEntry(call.cfg, v[2], EntryOf(v)).puts)}

\* C36: when the k-th Put of a CreateDNSRecords call fails, the call returns
\* an error; exactly the records of the first k-1 valid addresses are in the
\* store and no Put is issued for the k-th or a later address.  In a pass of
\* syncAllResources a resource that meets this keeps its first k-1 records
\* and no other, the pass returns nil, and the resources listed after it are
\* processed.
C36_PartialWrite ==
    /\ (call.op = "CreateDNSRecords" /\ ret.done
        /\ call.failAt \in 1..Len(ValidAddrs(call.ips)))
       => LET valid == ValidAddrs(call.ips)
              k     == call.failAt
          IN  /\ ret.err
              /\ Len(ret.puts) = k - 1
              /\ Cardinality(DOMAIN ret.store) = k - 1
              /\ ValuesOf(ret.store)
                   = {Marshal(DNSRecord(valid[j], call.cfg.RecordTTL)) : j \in 1..(k - 1)}
    /\ (call.op = "CreateDNSRecords" /\ ret.done
        /\ call.failAt \notin 1..Len(ValidAddrs(call.ips)))
       => ~ret.err /\ Cardinality(DOMAIN ret.store) = Len(ValidAddrs(call.ips))
    /\ (call.op = "syncAllResources" /\ ret.done /\ ~call.nodesErr)
       => /\ ~ret.err
          /\ \A v \in FailedVisits :
                /\ Cardinality(KeysUnder(ret.store, EntryOf(v).res))
                     = EntryOf(v).failAt - 1
                /\ \A w \in Listed :
                      (/\ w[1] = v[1]
                       /\ w[2] = v[2] => w[3] > v[3]
                       /\ w[2] = "qemu" => v[2] = "qemu"
                       /\ EntryOf(w).res.Status = "running"
                       /\ ~(IF w[2] = "qemu" THEN call.nodes[w[1]].vmsErr
                            ELSE call.nodes[w[1]].ctsErr))
                      => w \in Visited

\* C36 witness: in a pass the second Put of the VM a (its AAAA record)
\* failed; a has its A record and nothing else, and the VM b listed after it
\* has both of its records.
C36_Witness ==
    /\ call.op = "syncAllResources" /\ ret.done /\ ~call.nodesErr
    /\ <<1, "qemu", 1>> \in FailedVisits
    /\ call.nodes[1].vms[1].failAt = 2
    /\ Cardinality(KeysUnder(ret.store, call.nodes[1].vms[1].res)) = 1
    /\ <<1, "qemu", 2>> \in Visited
    /\ Cardinality(KeysUnder(ret.store, call.nodes[1].vms[2].res)) = 2

\* the ProxmoxClient of the run has no client
Unconfigured == NewProxmoxClient(config).client = Nil

\* C37: without a Proxmox API URL the Proxmox reconciler makes no connection
\* test, enumerates nothing and writes nothing: StartMonitoring only waits and
\* does not return while the process runs.  In hybrid mode the step into the
\* wait touches nothing of the Docker reconciler or the store, and every
\* record in the store was written by the Docker reconciler.
C37_UnconfiguredProxmox ==
    /\ [](Unconfigured
          => /\ ppc \in {"off", "start", "blocked"}
             /\ pret = Nil /\ pInitial = Nil
             /\ pNodes = <<>> /\ pList = <<>> /\ pPuts = <<>> /\ pRes = NoResource
             /\ \A k \in DOMAIN origin : origin[k].by = "docker"
             /\ config.AgentMode = "proxmox" => store = EmptyStore)
    /\ [][Unconfigured
          => /\ ppc = "blocked" => ppc' = "blocked"
             /\ (ppc = "start" /\ ppc' # "start")
                  => (/\ ppc' = "blocked"
                      /\ UNCHANGED <<dockerVars, dret, errChan, store, origin,
                                     containers>>)]_vars

\* C37 witness: hybrid mode without the URL; StartMonitoring waits, and the
\* Docker reconciler has synced, written its record and watches the events.
C37_Witness ==
    /\ Unconfigured /\ config.AgentMode = "hybrid"
    /\ ppc = "blocked" /\ pret = Nil
    /\ dpc = "watch"
    /\ \E k \in DOMAIN store : origin[k].by = "docker"

\* C38 (as claimed): whatever PROXMOX_POLL_INTERVAL holds, the interval of
\* the configuration is strictly positive, 30s when the variable is unset,
\* and time.NewTicker starts the interval loop.
C38_PollIntervalPositive ==
    (call.op = "LoadConfig" /\ ret.done)
    => /\ ret.ProxmoxPollInterval > 0
       /\ ret.ticker = "ticking"
       /\ call.env = <<>> => ret.ProxmoxPollInterval = 30000

\* what holds instead: the interval is 30s when the variable is unset, and
\* the ticker starts exactly when the value parses to a positive duration
C38_PositiveWhenParsedPositive ==
    (call.op = "LoadConfig" /\ ret.done)
    => /\ call.env = <<>> => (ret.ProxmoxPollInterval = 30000 /\ ret.ticker = "ticking")
       /\ ret.ticker = "ticking"
            <=> (~ParseDuration(getEnv(call.env, <<"3", "0", "s">>)).err
                 /\ ParseDuration(getEnv(call.env, <<"3", "0", "s">>)).d > 0)
       /\ ParseDuration(getEnv(call.env, <<"3", "0", "s">>)).err
            => ret.ProxmoxPollInterval = 0

====
